---- MODULE Spec2Model ----
(***************************************************************************)
(* A model of the Shokz transfer utility: the playlist engine and its      *)
(* size properties (playlist.py), the selection parser (ui.py), the        *)
(* library scan and the deduplicating indexer (indexer.py), the device     *)
(* transfer engine (transfer.py), the cache and session files with the     *)
(* startup sequence that reads them (indexer.py, playlist.py, main.py),    *)
(* and the menu loop of the main program (main.py).                        *)
(*                                                                         *)
(* Strings on which the code computes (file names, titles, user input)     *)
(* are sequences of one-character strings, so that lower(), strip(),       *)
(* split(), int() and Path.stem / Path.suffix are computed, not assumed.   *)
(***************************************************************************)
EXTENDS Integers, Sequences, FiniteSets, TLC

VARIABLES
    playlist,           \* the Playlist object: [capacity_mb, tracks]
    call,               \* the last method call or menu handler: [op, arg, ret, before]
    extracted,          \* build_index: the tracks extracted from the scanned files
    format_preference,  \* config.format_preference
    deduplicated,       \* build_index: the list returned by _deduplicate_tracks
    index_pc,           \* build_index: "idle", "extracted" or "done"
    input_str,          \* parse_selection: the user's input
    max_value,          \* parse_selection: the number of items offered
    selection,          \* parse_selection: [raised, value], the outcome
    parse_pc,           \* parse_selection: "idle", "call" or "done"
    target,             \* config.target: the parts of the device's mount path
    mounted,            \* the target path exists and is a directory
    device,             \* the tree below target: [files, dirs], sets of relative paths
    transfer_tracks,    \* perform_full_transfer: the tracks to transfer
    transfer_pc,        \* perform_full_transfer: the statement reached
    clearing,           \* clear_shokz_music: [files, i, deleted, errors]
    copying,            \* transfer_to_shokz: [i, copied, bytes_copied, errors, used_names, dest_names]
    result,             \* the TransferResult returned, or None
    phases,             \* the phases of the transfer entered so far
    source_paths,       \* config.source_paths: the primary and the secondary root
    scanning,           \* build_index: [pc, r, k, files, skipped, all_files, errors, ...]
    cache_file,         \* library_cache.json: [exists, kind, data]
    session_file,       \* playlist_session.json: [exists, kind, data]
    library,            \* main: the library loaded or scanned
    loaded,             \* what the last load_session or load_cache returned or raised
    startup,            \* main: [pc, calls, rescanned, ...], the step main has reached
    config              \* main: the Config loaded, [capacity_mb]

playlistVars == <<playlist, call>>
indexVars == <<extracted, format_preference, deduplicated, index_pc>>
parseVars == <<input_str, max_value, selection, parse_pc>>
transferVars == <<target, mounted, device, transfer_tracks, transfer_pc, clearing, copying,
                  result, phases>>
scanVars == <<source_paths, scanning>>
storeVars == <<cache_file, session_file, library, loaded, startup, config>>
vars == <<playlistVars, indexVars, parseVars, transferVars, scanVars, storeVars>>

(***************************************************************************)
(* Bounds                                                                  *)
(***************************************************************************)
MaxArgs == 2       \* longest argument list of add_many / remove_many

(***************************************************************************)
(* Generic helpers                                                         *)
(***************************************************************************)
Range(s) == {s[i] : i \in DOMAIN s}

SeqsUpTo(S, n) == UNION {[1..k -> S] : k \in 0..n}

RECURSIVE SumSeq(_)
SumSeq(s) == IF s = <<>> THEN 0 ELSE Head(s) + SumSeq(Tail(s))

\* Python's sorted(xs, reverse=True) on integers (insertion sort; stable).
RECURSIVE InsertDesc(_, _)
InsertDesc(x, s) ==
    IF s = <<>> THEN <<x>>
    ELSE IF x > Head(s) THEN <<x>> \o s
    ELSE <<Head(s)>> \o InsertDesc(x, Tail(s))

RECURSIVE SortedDesc(_)
SortedDesc(s) ==
    IF s = <<>> THEN <<>>
    ELSE InsertDesc(s[Len(s)], SortedDesc(SubSeq(s, 1, Len(s) - 1)))

(***************************************************************************)
(* Strings as sequences of characters                                      *)
(***************************************************************************)
UpperLetters == <<"A", "B", "C", "D", "E", "F", "G", "H", "I", "J", "K", "L", "M",
                  "N", "O", "P", "Q", "R", "S", "T", "U", "V", "W", "X", "Y", "Z">>
LowerLetters == <<"a", "b", "c", "d", "e", "f", "g", "h", "i", "j", "k", "l", "m",
                  "n", "o", "p", "q", "r", "s", "t", "u", "v", "w", "x", "y", "z">>

LowerChar(c) ==
    IF \E i \in DOMAIN UpperLetters : UpperLetters[i] = c
    THEN LowerLetters[CHOOSE i \in DOMAIN UpperLetters : UpperLetters[i] = c]
    ELSE c

\* str.lower()
lower(s) == [i \in DOMAIN s |-> LowerChar(s[i])]

(***************************************************************************)
(* Tracks (indexer.py, class Track)                                        *)
(***************************************************************************)
Track(dir, name, title, artist, size, fmt) ==
    [path |-> [dir |-> dir, name |-> name], title |-> title, artist |-> artist,
     album |-> "alb", genre |-> "gen", size_bytes |-> size, format |-> fmt]

BytesPerMB == 1048576

\* Tracks offered to the playlist.  PT4 is the file of PT1 seen by a later
\* scan (same path, other metadata and size).
PT1 == Track("lib1", <<"a", ".", "m", "p", "3">>, <<"S">>, <<"x">>, 600000, "mp3")
PT2 == Track("lib2", <<"a", ".", "m", "p", "3">>, <<"S">>, <<"x">>, 600000, "mp3")
PT3 == Track("lib1", <<"b", ".", "m", "4", "a">>, <<"T">>, <<"x">>, 1048576, "aac")
PT4 == Track("lib1", <<"a", ".", "m", "p", "3">>, <<"s">>, <<"x">>, 700000, "mp3")

PlaylistPool == {PT1, PT2, PT3, PT4}

\* Playlist(capacity_mb=config.capacity_mb); two of the tracks exceed 1 MB.
Capacities == {1}

(***************************************************************************)
(* Playlist (playlist.py)                                                  *)
(***************************************************************************)
\* A Python integer too large for one machine word is kept as its two digits
\* in base 2^20: the value is hi * 2^20 + lo, with 0 <= lo < 2^20.
BigInt(n) == [hi |-> n \div BytesPerMB, lo |-> n % BytesPerMB]

BigAdd(x, y) ==
    [hi |-> x.hi + y.hi + (x.lo + y.lo) \div BytesPerMB, lo |-> (x.lo + y.lo) % BytesPerMB]

\* sum(...) over integers
RECURSIVE sum(_)
sum(ns) == IF ns = <<>> THEN BigInt(0) ELSE BigAdd(BigInt(Head(ns)), sum(Tail(ns)))

total_size_bytes(pl) == sum([i \in DOMAIN pl.tracks |-> pl.tracks[i].size_bytes])

\* A number of megabytes is kept exactly: whole + frac / 2^20, with
\* 0 <= frac < 2^20 (negative numbers have a negative whole part).
Megabytes(whole, frac) ==
    [whole |-> whole + frac \div BytesPerMB, frac |-> frac % BytesPerMB]

\* total_size_bytes / (1024 * 1024)
total_size_mb(pl) ==
    LET n == total_size_bytes(pl) IN Megabytes(n.hi, n.lo)

\* x > n and x < n for a number of megabytes x and an integer n
Exceeds(x, n) == x.whole > n \/ (x.whole = n /\ x.frac > 0)
Below(x, n) == x.whole < n

\* capacity_mb - total_size_mb
remaining_mb(pl) ==
    LET mb == total_size_mb(pl) IN Megabytes(pl.capacity_mb - mb.whole, 0 - mb.frac)

\* a percentage is kept exactly as the quotient num / den
percent_full_unguarded(pl) ==
    LET mb == total_size_mb(pl)
    IN  [num |-> Megabytes(mb.whole * 100, mb.frac * 100), den |-> pl.capacity_mb]

\* 100.0 if capacity_mb == 0, else (total_size_mb / capacity_mb) * 100
percent_full(pl) ==
    IF pl.capacity_mb = 0 THEN [num |-> Megabytes(100, 0), den |-> 1]
    ELSE LET mb == total_size_mb(pl)
         IN  [num |-> Megabytes(mb.whole * 100, mb.frac * 100), den |-> pl.capacity_mb]

is_at_capacity(pl) == ~Below(total_size_mb(pl), pl.capacity_mb)

\* total_size_mb > capacity_mb
is_over_capacity(pl) == Exceeds(total_size_mb(pl), pl.capacity_mb)

\* percent_full > 90
is_near_capacity(pl) ==
    LET p == percent_full(pl) IN Exceeds(p.num, 90 * p.den)

\* add refusing a track once the playlist is at or over capacity
add_capped(pl, track) ==
    IF \/ \E i \in DOMAIN pl.tracks : pl.tracks[i].path = track.path
       \/ is_at_capacity(pl)
    THEN [pl |-> pl, ret |-> FALSE]
    ELSE [pl |-> [pl EXCEPT !.tracks = Append(@, track)], ret |-> TRUE]

\* add comparing whole tracks instead of paths
add_by_identity(pl, track) ==
    IF \E i \in DOMAIN pl.tracks : pl.tracks[i] = track
    THEN [pl |-> pl, ret |-> FALSE]
    ELSE [pl |-> [pl EXCEPT !.tracks = Append(@, track)], ret |-> TRUE]

\* Playlist.add: [pl |-> the playlist afterwards, ret |-> the returned boolean]
add(pl, track) ==
    IF \E i \in DOMAIN pl.tracks : pl.tracks[i].path = track.path
    THEN [pl |-> pl, ret |-> FALSE]
    ELSE [pl |-> [pl EXCEPT !.tracks = Append(@, track)], ret |-> TRUE]

\* Playlist.add_many: ret is <<number added, what each add call returned>>
RECURSIVE add_many(_, _)
add_many(pl, new) ==
    IF new = <<>> THEN [pl |-> pl, ret |-> <<0, <<>> >>]
    ELSE LET one == add(pl, Head(new))
             rest == add_many(one.pl, Tail(new))
         IN [pl |-> rest.pl,
             ret |-> <<(IF one.ret THEN 1 ELSE 0) + rest.ret[1],
                       <<one.ret>> \o rest.ret[2]>>]

None == [none |-> TRUE]

\* list.pop(index) for a 0-based index
Pop(tracks, index) ==
    [j \in 1..(Len(tracks) - 1) |-> IF j <= index THEN tracks[j] ELSE tracks[j + 1]]

\* Playlist.remove: ret is the removed track or None
remove(pl, index) ==
    IF 0 <= index /\ index < Len(pl.tracks)
    THEN [pl |-> [pl EXCEPT !.tracks = Pop(@, index)], ret |-> pl.tracks[index + 1]]
    ELSE [pl |-> pl, ret |-> None]

\* "if track:" -- a Track instance is always truthy, None is not.
Truthy(x) == x # None

\* the loop of remove_many over the indices in the order given
RECURSIVE RemoveEach(_, _)
RemoveEach(pl, indices) ==
    IF indices = <<>> THEN [pl |-> pl, ret |-> <<>>]
    ELSE LET one == remove(pl, Head(indices))
             rest == RemoveEach(one.pl, Tail(indices))
         IN [pl |-> rest.pl,
             ret |-> (IF Truthy(one.ret) THEN <<one.ret>> ELSE <<>>) \o rest.ret]

remove_many_unsorted(pl, indices) == RemoveEach(pl, indices)

\* Playlist.remove_many: ret is the list of removed tracks
remove_many(pl, indices) == RemoveEach(pl, SortedDesc(indices))

\* Playlist.clear: ret is the prior count
clear(pl) == [pl |-> [pl EXCEPT !.tracks = <<>>], ret |-> Len(pl.tracks)]

NoCall == [op |-> "none", arg |-> <<>>, ret |-> <<>>, before |-> <<>>]

Called(op, arg, res) ==
    /\ playlist' = res.pl
    /\ UNCHANGED <<indexVars, parseVars, transferVars, scanVars, storeVars>>
    /\ call' = [op |-> op, arg |-> arg, ret |-> res.ret, before |-> playlist.tracks]

PlaylistAdd ==
    \E t \in PlaylistPool : Called("add", t, add(playlist, t))

PlaylistAddMany ==
    \E ts \in SeqsUpTo(PlaylistPool, MaxArgs) :
        Called("add_many", ts, add_many(playlist, ts))

IndexArgs == -1..(Cardinality({t.path : t \in PlaylistPool}))

PlaylistRemove ==
    \E i \in IndexArgs : Called("remove", i, remove(playlist, i))

PlaylistRemoveMany ==
    \E is \in SeqsUpTo(IndexArgs, MaxArgs) :
        Called("remove_many", is, remove_many(playlist, is))

PlaylistClear == Called("clear", <<>>, clear(playlist))

PlaylistIdle ==
    /\ playlist = [capacity_mb |-> 0, tracks |-> <<>>]
    /\ call = NoCall

IndexIdle ==
    /\ extracted = <<>>
    /\ format_preference = "mp3"
    /\ deduplicated = <<>>
    /\ index_pc = "idle"

\* clearing.before is the device tree when the files were listed and
\* clearing.attempts the files handed to unlink, in order; copying.attempts
\* is the positions of the tracks handed to copy2, in order, each with its outcome
NoClearing == [files |-> <<>>, i |-> 0, deleted |-> 0, errors |-> <<>>,
               before |-> None, attempts |-> <<>>]
NoCopying == [i |-> 0, copied |-> 0, bytes_copied |-> 0, errors |-> <<>>,
              used_names |-> {}, dest_names |-> <<>>, attempts |-> <<>>]

TransferIdle ==
    /\ target = <<>>
    /\ mounted = FALSE
    /\ device = [files |-> {}, dirs |-> {}]
    /\ transfer_tracks = <<>>
    /\ transfer_pc = "idle"
    /\ clearing = NoClearing
    /\ copying = NoCopying
    /\ result = None
    /\ phases = <<>>

\* the state of build_index's scan before any root was scanned: the root and
\* the entry reached, the files of the root being walked, the directories whose
\* listing was denied, all_files, errors, and a log of the calls of
\* scan_directory, of the entries found inaccessible and of the roots whose
\* walk ended in a root-level error
NoScanning == [pc |-> "check", r |-> 1, k |-> 0, files |-> <<>>, skipped |-> {},
               all_files |-> <<>>, errors |-> <<>>,
               scanned |-> <<>>, faults |-> {}, escalated |-> {}]

ScanIdle ==
    /\ source_paths = <<>>
    /\ scanning = NoScanning

\* a file that does not exist
NoFile == [exists |-> FALSE, kind |-> "missing", data |-> [t |-> "invalid"]]

\* the outcome of a call that has not been made
NotCalled == [raised |-> "none", none |-> TRUE, value |-> <<>>]

\* main before its startup: the step reached, the calls of the functions
\* reading the files with their outcomes, whether scan_library was called,
\* what the two files held when main started, and whether a write or a
\* deletion of the session file has failed since
NoStartup == [pc |-> "idle", calls |-> <<>>, rescanned |-> FALSE,
              cache_kind |-> "missing", session_kind |-> "missing",
              write_failed |-> FALSE]

\* no configuration loaded
NoConfig == [capacity_mb |-> 0]

StoreIdle ==
    /\ cache_file = NoFile
    /\ session_file = NoFile
    /\ library = <<>>
    /\ loaded = NotCalled
    /\ startup = NoStartup
    /\ config = NoConfig

ParseIdle ==
    /\ input_str = <<>>
    /\ max_value = 0
    /\ selection = [raised |-> FALSE, value |-> <<>>]
    /\ parse_pc = "idle"

InitPlaylist ==
    /\ \E c \in Capacities : playlist = [capacity_mb |-> c, tracks |-> <<>>]
    /\ call = NoCall
    /\ IndexIdle
    /\ ParseIdle
    /\ TransferIdle
    /\ ScanIdle
    /\ StoreIdle

NextPlaylist ==
    \/ PlaylistAdd
    \/ PlaylistAddMany
    \/ PlaylistRemove
    \/ PlaylistRemoveMany
    \/ PlaylistClear

SpecPlaylist == InitPlaylist /\ [][NextPlaylist]_vars

(***************************************************************************)
(* Properties of the playlist engine                                       *)
(***************************************************************************)
HasPath(tracks, path) == \E i \in DOMAIN tracks : tracks[i].path = path

\* C2: starting from an empty playlist, after any sequence of add, add_many,
\* remove, remove_many and clear no two entries have equal path, and every
\* add call (direct, or made by add_many) returns False exactly when a track
\* with the same path is in the playlist at the time of that call.
C2_PathUniqueness ==
    /\ \A i, j \in DOMAIN playlist.tracks :
           i # j => playlist.tracks[i].path # playlist.tracks[j].path
    /\ call.op = "add" =>
           (call.ret = FALSE <=> HasPath(call.before, call.arg.path))
    /\ call.op = "add_many" =>
           \A k \in DOMAIN call.arg :
               (call.ret[2][k] = FALSE) <=>
                   \/ HasPath(call.before, call.arg[k].path)
                   \/ \E j \in 1..(k - 1) : call.arg[j].path = call.arg[k].path

\* a track is refused although its metadata differs from the entry that
\* holds its path, and a duplicate inside one add_many call is refused
C2_Witness ==
    /\ call.op = "add_many"
    /\ call.arg = <<PT4, PT2>>
    /\ call.ret = <<1, <<FALSE, TRUE>> >>
    /\ playlist.tracks = <<PT1, PT3, PT2>>

\* the elements of s whose 0-based position is not in S, in order
RECURSIVE WithoutPositions(_, _, _)
WithoutPositions(s, S, pos) ==
    IF s = <<>> THEN <<>>
    ELSE (IF pos \in S THEN <<>> ELSE <<Head(s)>>)
         \o WithoutPositions(Tail(s), S, pos + 1)

DistinctInRange(indices, n) ==
    /\ \A k \in DOMAIN indices : 0 <= indices[k] /\ indices[k] < n
    /\ \A j, k \in DOMAIN indices : j # k => indices[j] # indices[k]

\* C3: for distinct in-range indices given in any order, remove_many removes
\* exactly the elements at those positions before the call, keeps the others
\* in their relative order, and returns the removed tracks in descending
\* order of their original index.
C3_RemoveMany ==
    (call.op = "remove_many" /\ DistinctInRange(call.arg, Len(call.before))) =>
        /\ playlist.tracks = WithoutPositions(call.before, Range(call.arg), 0)
        /\ Len(call.ret) = Len(call.arg)
        /\ \A i \in Range(call.arg) :
               LET rank == 1 + Cardinality({j \in Range(call.arg) : j > i})
               IN call.ret[rank] = call.before[i + 1]

\* indices {0, 2} of a 3-element playlist, given in ascending order
C3_Witness ==
    /\ call.op = "remove_many"
    /\ call.arg = <<0, 2>>
    /\ call.before = <<PT1, PT3, PT2>>
    /\ playlist.tracks = <<PT3>>
    /\ call.ret = <<PT2, PT1>>

\* C26: for every playlist and every index list passed to remove_many, lists
\* that repeat an index or hold out-of-range or negative indices included,
\* only elements whose original position appears in the list are removed (a
\* repeated index removes one element, not a neighbour that shifted into its
\* position), and out-of-range indices remove nothing.
C26_OnlyListedPositionsRemoved ==
    call.op = "remove_many" =>
        playlist.tracks = WithoutPositions(call.before, Range(call.arg), 0)

\* C7: add with a path not yet present appends the track as the last
\* element and returns True in every playlist state, including at or over
\* capacity_mb; with a path already present it returns False and leaves the
\* track sequence unchanged.
C7_AddFrame ==
    call.op = "add" =>
        IF HasPath(call.before, call.arg.path)
        THEN call.ret = FALSE /\ playlist.tracks = call.before
        ELSE call.ret = TRUE /\ playlist.tracks = Append(call.before, call.arg)

\* a track is added to a playlist that is already over capacity
C7_Witness ==
    /\ call.op = "add"
    /\ call.ret = TRUE
    /\ is_over_capacity([capacity_mb |-> playlist.capacity_mb, tracks |-> call.before])
    /\ Len(playlist.tracks) = Len(call.before) + 1

(***************************************************************************)
(* Playlist capacity (playlist.py, the size properties)                    *)
(***************************************************************************)
\* Three files of 1400 MB, one of exactly 1 MB and one below 1 MB.
LT1 == Track("lib1", <<"a", ".", "m", "p", "3">>, <<"S">>, <<"x">>, 1468006400, "mp3")
LT2 == Track("lib1", <<"b", ".", "m", "4", "a">>, <<"T">>, <<"x">>, 1468006400, "aac")
LT3 == Track("lib2", <<"a", ".", "m", "p", "3">>, <<"U">>, <<"x">>, 1468006400, "mp3")
LT4 == Track("lib2", <<"b", ".", "m", "4", "a">>, <<"V">>, <<"x">>, 1048576, "aac")
LT5 == Track("lib2", <<"c", ".", "m", "p", "3">>, <<"W">>, <<"x">>, 600000, "mp3")

LargePool == {LT1, LT2, LT3, LT4, LT5}

\* capacity_mb is taken from the configuration or the session file unchecked
ConfiguredCapacities == {0, 1, 4000}

\* what the size properties of the playlist return
Properties(pl) ==
    [total_size_bytes |-> total_size_bytes(pl),
     total_size_mb |-> total_size_mb(pl),
     remaining_mb |-> remaining_mb(pl),
     percent_full |-> percent_full(pl),
     is_over_capacity |-> is_over_capacity(pl),
     is_near_capacity |-> is_near_capacity(pl)]

InitCapacity ==
    /\ \E c \in ConfiguredCapacities : playlist = [capacity_mb |-> c, tracks |-> <<>>]
    /\ call = NoCall
    /\ IndexIdle
    /\ ParseIdle
    /\ TransferIdle
    /\ ScanIdle
    /\ StoreIdle

CapacityAdd ==
    \E t \in LargePool : Called("add", t, add(playlist, t))

ReadProperties ==
    Called("properties", <<>>, [pl |-> playlist, ret |-> Properties(playlist)])

NextCapacity ==
    \/ CapacityAdd
    \/ ReadProperties

SpecCapacity == InitCapacity /\ [][NextCapacity]_vars

\* the sum of the members' sizes, digit by digit
SumOfSizes(tracks) ==
    LET los == SumSeq([i \in DOMAIN tracks |-> tracks[i].size_bytes % BytesPerMB])
        his == SumSeq([i \in DOMAIN tracks |-> tracks[i].size_bytes \div BytesPerMB])
    IN  [hi |-> his + los \div BytesPerMB, lo |-> los % BytesPerMB]

\* x > capacity * 2^20 for an integer x
MoreThanMB(x, capacity) == x.hi > capacity \/ (x.hi = capacity /\ x.lo > 0)

\* a percentage equal to the integer n
IsPercent(p, n) == p.den # 0 /\ p.num = Megabytes(n * p.den, 0)

\* C18: for every playlist, total_size_bytes is the sum of the members'
\* size_bytes, is_over_capacity holds iff total_size_bytes > capacity_mb * 2^20,
\* remaining_mb is negative exactly when is_over_capacity holds, percent_full
\* is 100 whenever capacity_mb is 0, and a capacity of 4000 MB with 4200 MB of
\* tracks gives over-capacity, 105 percent and -200 MB remaining.
C18_CapacityArithmetic ==
    call.op = "properties" =>
        LET p == call.ret
            capacity == playlist.capacity_mb
        IN  /\ p.total_size_bytes = SumOfSizes(playlist.tracks)
            /\ p.is_over_capacity <=> MoreThanMB(p.total_size_bytes, capacity)
            /\ Below(p.remaining_mb, 0) <=> p.is_over_capacity
            /\ capacity = 0 => IsPercent(p.percent_full, 100)
            /\ (capacity = 4000 /\ p.total_size_bytes = [hi |-> 4200, lo |-> 0]) =>
                    /\ p.is_over_capacity
                    /\ IsPercent(p.percent_full, 105)
                    /\ p.remaining_mb = Megabytes(-200, 0)

\* the properties of a playlist of capacity 4000 MB holding 4200 MB are read
C18_Witness ==
    /\ call.op = "properties"
    /\ playlist.capacity_mb = 4000
    /\ call.ret.total_size_bytes = [hi |-> 4200, lo |-> 0]
    /\ call.ret.is_over_capacity
    /\ Len(playlist.tracks) = 3

\* the properties of a non-empty playlist of capacity 0 are read
C18_ZeroCapacityRead ==
    /\ call.op = "properties"
    /\ playlist.capacity_mb = 0
    /\ playlist.tracks # <<>>

(***************************************************************************)
(* Deduplicating indexer (indexer.py)                                      *)
(***************************************************************************)
MaxExtracted == 4      \* longest list of extracted tracks

\* Extracted tracks: DT1, DT2, DT3 and DT5 are the same song (the keys differ
\* in case only), in both formats and from both source roots.
DT1 == Track("lib1", <<"a", ".", "m", "p", "3">>, <<"S">>, <<"x">>, 600000, "mp3")
DT2 == Track("lib1", <<"a", ".", "m", "4", "a">>, <<"s">>, <<"X">>, 500000, "aac")
DT3 == Track("lib2", <<"a", ".", "m", "p", "3">>, <<"S">>, <<"x">>, 600000, "mp3")
DT4 == Track("lib2", <<"b", ".", "m", "4", "a">>, <<"T">>, <<"x">>, 1048576, "aac")
DT5 == Track("lib2", <<"a", ".", "a", "a", "c">>, <<"S">>, <<"X">>, 400000, "aac")

DedupPool == {DT1, DT2, DT3, DT4, DT5}

FormatPreferences == {"aac", "mp3", "AAC", "flac"}

dedupe_key_case_sensitive(track) == track.title \o <<"|">> \o track.artist

\* Track.dedupe_key
dedupe_key(track) == lower(track.title) \o <<"|">> \o lower(track.artist)

\* the dict `seen` is a sequence of <<key, track>> in insertion order;
\* assigning to an existing key keeps the key's position
SeenHas(seen, key) == \E i \in DOMAIN seen : seen[i][1] = key
SeenGet(seen, key) == seen[CHOOSE i \in DOMAIN seen : seen[i][1] = key][2]

\* a dict that lists the key inserted last first
SeenSetFirst(seen, key, track) ==
    IF SeenHas(seen, key)
    THEN [i \in DOMAIN seen |-> IF seen[i][1] = key THEN <<key, track>> ELSE seen[i]]
    ELSE <<<<key, track>>>> \o seen

SeenSet(seen, key, track) ==
    IF SeenHas(seen, key)
    THEN [i \in DOMAIN seen |-> IF seen[i][1] = key THEN <<key, track>> ELSE seen[i]]
    ELSE Append(seen, <<key, track>>)

\* the loop's iteration letting every track of the preferred format replace
\* the entry, whatever the entry's format
DedupStepLastPreferred(seen, track, preference) ==
    LET key == dedupe_key(track)
    IN IF ~SeenHas(seen, key) THEN SeenSet(seen, key, track)
       ELSE IF preference = "aac"
            THEN IF track.format = "aac" THEN SeenSet(seen, key, track) ELSE seen
            ELSE IF track.format = "mp3" THEN SeenSet(seen, key, track) ELSE seen

\* the loop's iteration reading the preference without regard to case
DedupStepAnyCase(seen, track, preference) ==
    LET key == dedupe_key(track)
    IN IF ~SeenHas(seen, key) THEN SeenSet(seen, key, track)
       ELSE LET existing == SeenGet(seen, key)
            IN IF preference \in {"aac", "AAC"}
               THEN IF track.format = "aac" /\ existing.format = "mp3"
                    THEN SeenSet(seen, key, track) ELSE seen
               ELSE IF track.format = "mp3" /\ existing.format = "aac"
                    THEN SeenSet(seen, key, track) ELSE seen

\* one iteration of the loop of _deduplicate_tracks
DedupStep(seen, track, preference) ==
    LET key == dedupe_key(track)
    IN IF ~SeenHas(seen, key) THEN SeenSet(seen, key, track)
       ELSE LET existing == SeenGet(seen, key)
            IN IF preference = "aac"
               THEN IF track.format = "aac" /\ existing.format = "mp3"
                    THEN SeenSet(seen, key, track) ELSE seen
               ELSE IF track.format = "mp3" /\ existing.format = "aac"
                    THEN SeenSet(seen, key, track) ELSE seen

RECURSIVE DedupLoop(_, _, _)
DedupLoop(seen, tracks, preference) ==
    IF tracks = <<>> THEN seen
    ELSE DedupLoop(DedupStep(seen, Head(tracks), preference), Tail(tracks), preference)

\* first seen wins whatever the format
RECURSIVE deduplicate_first_wins(_, _)
deduplicate_first_wins(tracks, preference) ==
    IF tracks = <<>> THEN <<>>
    ELSE LET init == deduplicate_first_wins(SubSeq(tracks, 1, Len(tracks) - 1), preference)
             last == tracks[Len(tracks)]
         IN IF \E i \in DOMAIN init : dedupe_key(init[i]) = dedupe_key(last)
            THEN init ELSE Append(init, last)

\* _deduplicate_tracks: list(seen.values())
_deduplicate_tracks(tracks, preference) ==
    LET seen == DedupLoop(<<>>, tracks, preference)
    IN [i \in DOMAIN seen |-> seen[i][2]]

InitIndex ==
    /\ extracted \in SeqsUpTo(DedupPool, MaxExtracted)
    /\ format_preference \in FormatPreferences
    /\ deduplicated = <<>>
    /\ index_pc = "extracted"
    /\ PlaylistIdle
    /\ ParseIdle
    /\ TransferIdle
    /\ ScanIdle
    /\ StoreIdle

\* build_index, from the extracted tracks to the IndexResult
Deduplicate ==
    /\ index_pc = "extracted"
    /\ deduplicated' = _deduplicate_tracks(extracted, format_preference)
    /\ index_pc' = "done"
    /\ UNCHANGED <<extracted, format_preference, playlistVars, parseVars, transferVars,
                   scanVars, storeVars>>

NextIndex == Deduplicate

SpecIndex == InitIndex /\ [][NextIndex]_vars

(***************************************************************************)
(* Properties of the indexer                                               *)
(***************************************************************************)
\* the key as the data model states it: lowercase title + "|" + lowercase artist
SongKey(track) == lower(track.title) \o <<"|">> \o lower(track.artist)

PreferredFormat == IF format_preference = "aac" THEN "aac" ELSE "mp3"

\* C5: for every input list in every order, if some dedupe_key occurs with
\* both an mp3 and an aac track, the track kept for that key has the
\* preferred format ("aac" when format_preference is "aac", otherwise "mp3").
C5_FormatPreference ==
    index_pc = "done" =>
        \A m, a \in Range(extracted) :
            (m.format = "mp3" /\ a.format = "aac" /\ SongKey(m) = SongKey(a)) =>
                /\ \E o \in Range(deduplicated) : SongKey(o) = SongKey(m)
                /\ \A o \in Range(deduplicated) :
                       SongKey(o) = SongKey(m) => o.format = PreferredFormat

\* the non-preferred format was scanned first and is replaced
C5_Witness ==
    /\ index_pc = "done"
    /\ extracted = <<DT2, DT4, DT1>>
    /\ format_preference = "mp3"
    /\ deduplicated = <<DT1, DT4>>

\* C6: the deduplicated list holds at most one track per dedupe_key, every
\* returned track is one of the extracted tracks, and every dedupe_key of
\* the input is represented exactly once.
C6_OnePerKey ==
    index_pc = "done" =>
        /\ \A i, j \in DOMAIN deduplicated :
               i # j => SongKey(deduplicated[i]) # SongKey(deduplicated[j])
        /\ Range(deduplicated) \subseteq Range(extracted)
        /\ \A t \in Range(extracted) :
               Cardinality({i \in DOMAIN deduplicated :
                                SongKey(deduplicated[i]) = SongKey(t)}) = 1

\* four files of two songs, the keys of one song differing in case only
C6_Witness ==
    /\ index_pc = "done"
    /\ Len(extracted) = 4
    /\ {DT1, DT2, DT4} \subseteq Range(extracted)
    /\ Len(deduplicated) = 2

\* C17: deduplication is deterministic and idempotent: _deduplicate_tracks
\* applied to its own output, with the same preference, returns that output
\* unchanged: the same keys, the same chosen tracks and formats, the same order.
C17_Idempotent ==
    index_pc = "done" =>
        _deduplicate_tracks(deduplicated, format_preference) = deduplicated

\* two songs, the first of them in three files, of which a later one replaced
\* the first
C17_Witness ==
    /\ index_pc = "done"
    /\ format_preference = "mp3"
    /\ extracted = <<DT2, DT4, DT1, DT5>>
    /\ deduplicated = <<DT1, DT4>>
    /\ _deduplicate_tracks(deduplicated, format_preference) = <<DT1, DT4>>

\* C20: for every format_preference other than exactly "aac" (unrecognized or
\* differently cased values included), _deduplicate_tracks returns the same
\* list as it does for the preference "mp3" on the same input.
C20_OtherPreferencesAreMp3 ==
    (index_pc = "done" /\ format_preference # "aac") =>
        deduplicated = _deduplicate_tracks(extracted, "mp3")

\* under the preference "AAC" an MP3 replaced the AAC file seen first, which
\* the preference "aac" would have kept
C20_Witness ==
    /\ index_pc = "done"
    /\ format_preference = "AAC"
    /\ extracted = <<DT2, DT4, DT1>>
    /\ deduplicated = <<DT1, DT4>>
    /\ _deduplicate_tracks(extracted, "aac") = <<DT2, DT4>>

\* the positions of the input at which a key appears for the first time
FirstAppearances ==
    {i \in DOMAIN extracted :
        \A j \in 1..(i - 1) : SongKey(extracted[j]) # SongKey(extracted[i])}

Least(S) == CHOOSE i \in S : \A j \in S : i <= j

\* the position of the track to keep for the key first seen at position i
KeptPosition(i) ==
    LET same == {j \in DOMAIN extracted : SongKey(extracted[j]) = SongKey(extracted[i])}
        preferred == {j \in same : extracted[j].format = PreferredFormat}
    IN IF preferred # {} THEN Least(preferred) ELSE Least(same)

\* C21: for each dedupe_key the track kept is the first track in input order
\* having the preferred format if there is one, otherwise the first track
\* with that key; and the output lists the keys in the order of their first
\* appearance in the input, a replacement taking the place of the entry it
\* replaces.
C21_FirstPreferredInPlace ==
    index_pc = "done" =>
        /\ Len(deduplicated) = Cardinality(FirstAppearances)
        /\ \A i \in FirstAppearances :
               LET n == Cardinality({f \in FirstAppearances : f <= i})
               IN  n \in DOMAIN deduplicated /\ deduplicated[n] = extracted[KeptPosition(i)]

\* the MP3 seen first is replaced by the first AAC file of the song, which the
\* second AAC file of the song does not replace, and the song keeps its place
C21_Witness ==
    /\ index_pc = "done"
    /\ format_preference = "aac"
    /\ extracted = <<DT1, DT4, DT2, DT5>>
    /\ deduplicated = <<DT2, DT4>>

(***************************************************************************)
(* Selection parser (ui.py)                                                *)
(***************************************************************************)
MaxInputLen == 5       \* longest input typed character by character
MaxValue == 3          \* largest max_value

Whitespace == {" ", "\t"}

\* str.strip()
RECURSIVE lstrip(_)
lstrip(s) == IF s # <<>> /\ Head(s) \in Whitespace THEN lstrip(Tail(s)) ELSE s

RECURSIVE rstrip(_)
rstrip(s) ==
    IF s # <<>> /\ s[Len(s)] \in Whitespace THEN rstrip(SubSeq(s, 1, Len(s) - 1)) ELSE s

strip(s) == rstrip(lstrip(s))

\* str.replace(old, "") for a one-character old
RECURSIVE remove_char(_, _)
remove_char(s, c) ==
    IF s = <<>> THEN <<>>
    ELSE (IF Head(s) = c THEN <<>> ELSE <<Head(s)>>) \o remove_char(Tail(s), c)

Contains(s, c) == \E i \in DOMAIN s : s[i] = c

FirstIndex(s, c) == CHOOSE i \in DOMAIN s : s[i] = c /\ \A j \in 1..(i - 1) : s[j] # c

\* str.split(sep): always at least one part, empty parts included
RECURSIVE split(_, _)
split(s, sep) ==
    IF ~Contains(s, sep) THEN <<s>>
    ELSE LET k == FirstIndex(s, sep)
         IN <<SubSeq(s, 1, k - 1)>> \o split(SubSeq(s, k + 1, Len(s)), sep)

\* str.split(sep, 1) of a string that contains sep
split_once(s, sep) ==
    LET k == FirstIndex(s, sep)
    IN <<SubSeq(s, 1, k - 1), SubSeq(s, k + 1, Len(s))>>

DigitChars == <<"0", "1", "2", "3", "4", "5", "6", "7", "8", "9">>
IsDigit(c) == \E i \in DOMAIN DigitChars : DigitChars[i] = c
DigitValue(c) == (CHOOSE i \in DOMAIN DigitChars : DigitChars[i] = c) - 1

RECURSIVE DecimalValue(_)
DecimalValue(digits) ==
    IF digits = <<>> THEN 0
    ELSE 10 * DecimalValue(SubSeq(digits, 1, Len(digits) - 1))
         + DigitValue(digits[Len(digits)])

\* int(s): surrounding whitespace, an optional sign, then digits that single
\* underscores may separate; anything else is a ValueError (ok = FALSE)
int(s) ==
    LET t == strip(s)
        signed == t # <<>> /\ t[1] \in {"+", "-"}
        body == IF signed THEN Tail(t) ELSE t
        wellFormed ==
            /\ body # <<>>
            /\ \A i \in DOMAIN body : IsDigit(body[i]) \/ body[i] = "_"
            /\ body[1] # "_" /\ body[Len(body)] # "_"
            /\ \A i \in 1..(Len(body) - 1) : ~(body[i] = "_" /\ body[i + 1] = "_")
        magnitude == DecimalValue(remove_char(body, "_"))
    IN IF ~wellFormed THEN [ok |-> FALSE, value |-> 0]
       ELSE [ok |-> TRUE,
             value |-> IF signed /\ t[1] = "-" THEN 0 - magnitude ELSE magnitude]

\* the outcome of one iteration of the loop over the parts:
\* the indices it adds, and whether an exception leaves the function
Contributes(S) == [raised |-> FALSE, add |-> S]
Raises == [raised |-> TRUE, add |-> {}]

\* the loop body without the checks against numbers below 1
process_part_no_lower_bound(part, max) ==
    IF part = <<>> THEN Contributes({})
    ELSE IF Contains(part, "-")
    THEN LET se == split_once(part, "-")
             start_num == int(se[1])
             end_num == int(se[2])
         IN IF ~start_num.ok \/ ~end_num.ok THEN Contributes({})
            ELSE IF end_num.value > max \/ start_num.value > end_num.value
            THEN Contributes({})
            ELSE Contributes({i - 1 : i \in start_num.value..end_num.value})
    ELSE LET num == int(part)
         IN IF ~num.ok THEN Contributes({})
            ELSE IF num.value <= max
            THEN Contributes({num.value - 1})
            ELSE Contributes({})

\* the loop body without its except clauses
process_part_uncaught(part, max) ==
    IF part = <<>> THEN Contributes({})
    ELSE IF Contains(part, "-")
    THEN LET se == split_once(part, "-")
             start_num == int(se[1])
             end_num == int(se[2])
         IN IF ~start_num.ok \/ ~end_num.ok THEN Raises
            ELSE IF start_num.value < 1 \/ end_num.value > max
                    \/ start_num.value > end_num.value
            THEN Contributes({})
            ELSE Contributes({i - 1 : i \in start_num.value..end_num.value})
    ELSE LET num == int(part)
         IN IF ~num.ok THEN Raises
            ELSE IF 1 <= num.value /\ num.value <= max
            THEN Contributes({num.value - 1})
            ELSE Contributes({})

\* the body of "for part in parts"; a ValueError raised by int() is caught
\* by the except clause of the branch and the loop continues
process_part(part, max) ==
    IF part = <<>> THEN Contributes({})
    ELSE IF Contains(part, "-")
    THEN LET se == split_once(part, "-")
             start_num == int(se[1])
             end_num == int(se[2])
         IN IF ~start_num.ok \/ ~end_num.ok THEN Contributes({})
            ELSE IF start_num.value < 1 \/ end_num.value > max
                    \/ start_num.value > end_num.value
            THEN Contributes({})
            ELSE Contributes({i - 1 : i \in start_num.value..end_num.value})
    ELSE LET num == int(part)
         IN IF ~num.ok THEN Contributes({})
            ELSE IF 1 <= num.value /\ num.value <= max
            THEN Contributes({num.value - 1})
            ELSE Contributes({})

\* "for part in parts": an exception that leaves the body ends the loop
RECURSIVE PartsLoop(_, _, _)
PartsLoop(parts, max, indices) ==
    IF parts = <<>> THEN [raised |-> FALSE, value |-> indices]
    ELSE LET one == process_part(Head(parts), max)
         IN IF one.raised THEN [raised |-> TRUE, value |-> {}]
            ELSE PartsLoop(Tail(parts), max, indices \cup one.add)

\* sorted(indices) of a set of integers
RECURSIVE sorted(_)
sorted(S) ==
    IF S = {} THEN <<>>
    ELSE LET m == CHOOSE x \in S : \A y \in S : x <= y
         IN <<m>> \o sorted(S \ {m})

Str_all == <<"a", "l", "l">>
Str_star == <<"*">>
Str_none == <<"n", "o", "n", "e">>

\* list(range(max_value))
range_list(n) == [i \in 1..n |-> i - 1]

\* parse_selection: [raised |-> an exception left the call, value |-> the list]
parse_selection(str, max) ==
    LET s == lower(strip(str))
    IN IF s \in {Str_all, Str_star} THEN [raised |-> FALSE, value |-> range_list(max)]
       ELSE IF s \in {Str_none, <<>>} THEN [raised |-> FALSE, value |-> <<>>]
       ELSE LET loop == PartsLoop(split(remove_char(s, " "), ","), max, {})
            IN IF loop.raised THEN [raised |-> TRUE, value |-> <<>>]
               ELSE [raised |-> FALSE, value |-> sorted(loop.value)]

InputAlphabet == {"1", "3", ",", "-", " ", "x"}

\* inputs beyond the alphabet: the whole-input words, signs, underscores,
\* leading zeros, zero, tabs, longer lists
SpecialInputs ==
    { <<"a", "l", "l">>, <<" ", "A", "L", "l", " ">>, <<"*">>, <<"\t", "*", " ">>,
      <<"n", "o", "n", "e">>, <<"N", "o", "n", "e">>, <<"a", " ", "l", "l">>,
      <<"1", ",", "a", "l", "l">>, <<"n", "o", "n", "e", ",", "3">>,
      <<"0">>, <<"0", "-", "1">>, <<"0", "1">>, <<"+", "3">>, <<"1", "-", "+", "3">>,
      <<"1", "_", "1">>, <<"_", "1">>, <<"1", ",", "\t", "3">>, <<"2", "-", "2">>,
      <<"1", "-", "-", "3">>, <<"3", ",", "x", "-", "1", ",", "1", "-", "2">>,
      <<"1", "-", "2", ",", "2", "-", "3", ",", "9", "9">> }

InitParse ==
    /\ input_str \in SeqsUpTo(InputAlphabet, MaxInputLen) \cup SpecialInputs
    /\ max_value \in 0..MaxValue
    /\ selection = [raised |-> FALSE, value |-> <<>>]
    /\ parse_pc = "call"
    /\ PlaylistIdle
    /\ IndexIdle
    /\ TransferIdle
    /\ ScanIdle
    /\ StoreIdle

ParseSelection ==
    /\ parse_pc = "call"
    /\ selection' = parse_selection(input_str, max_value)
    /\ parse_pc' = "done"
    /\ UNCHANGED <<input_str, max_value, playlistVars, indexVars, transferVars, scanVars,
                   storeVars>>

NextParse == ParseSelection

SpecParse == InitParse /\ [][NextParse]_vars

(***************************************************************************)
(* Properties of the selection parser                                      *)
(***************************************************************************)
\* the input trimmed and lowercased, and the same without its spaces
TrimmedInput == lower(strip(input_str))
SpacelessInput == remove_char(TrimmedInput, " ")

\* the comma-separated tokens of s: the maximal comma-free stretches
TokensOf(s) ==
    { SubSeq(s, i, j) : <<i, j>> \in
        { p \in (1..(Len(s) + 1)) \X (0..Len(s)) :
            /\ p[2] >= p[1] - 1
            /\ p[1] = 1 \/ s[p[1] - 1] = ","
            /\ p[2] = Len(s) \/ s[p[2] + 1] = ","
            /\ \A k \in p[1]..p[2] : s[k] # "," } }

\* {n-1} for a bare integer n with 1 <= n <= max
BareIndices(t, max) ==
    IF int(t).ok /\ 1 <= int(t).value /\ int(t).value <= max
    THEN {int(t).value - 1} ELSE {}

\* {a-1..b-1} for a range a-b of integers with 1 <= a <= b <= max
RangeIndices(t, max) ==
    UNION { LET a == int(SubSeq(t, 1, k - 1))
                b == int(SubSeq(t, k + 1, Len(t)))
            IN IF a.ok /\ b.ok /\ 1 <= a.value /\ a.value <= b.value /\ b.value <= max
               THEN {i - 1 : i \in a.value..b.value} ELSE {}
            : k \in {k \in DOMAIN t : t[k] = "-"} }

ExpectedSelection ==
    IF TrimmedInput \in {<<"a", "l", "l">>, <<"*">>} THEN 0..(max_value - 1)
    ELSE IF TrimmedInput \in {<<>>, <<"n", "o", "n", "e">>} THEN {}
    ELSE UNION { BareIndices(t, max_value) \cup RangeIndices(t, max_value) :
                 t \in TokensOf(SpacelessInput) }

\* C8: for every max_value >= 0 and every input, parse_selection returns a
\* strictly ascending list of zero-based indices within [0, max_value): all
\* of them for "all" or "*", none for "" or "none", otherwise the union over
\* the comma-separated tokens of {n-1} for a bare integer 1 <= n <= max_value
\* and {a-1..b-1} for a range a-b with 1 <= a <= b <= max_value.
C8_Selection ==
    parse_pc = "done" =>
        /\ ~selection.raised
        /\ \A i, j \in DOMAIN selection.value :
               i < j => selection.value[i] < selection.value[j]
        /\ \A i \in DOMAIN selection.value :
               0 <= selection.value[i] /\ selection.value[i] < max_value
        /\ Range(selection.value) = ExpectedSelection

\* a bare integer, a malformed range and a range, given out of order
C8_Witness ==
    /\ parse_pc = "done"
    /\ input_str = <<"3", ",", "x", "-", "1", ",", "1", "-", "2">>
    /\ max_value = 3
    /\ selection.value = <<0, 1, 2>>

WholeInputWords == {<<"a", "l", "l">>, <<"*">>, <<"n", "o", "n", "e">>}

\* C9: parse_selection never raises, and a malformed, empty, reversed or
\* out-of-bounds token neither contributes nor keeps the other tokens of the
\* same input from contributing: the result is the union of what each token
\* yields when it is parsed alone.
C9_NeverRaises ==
    parse_pc = "done" =>
        /\ ~selection.raised
        /\ TrimmedInput \notin (WholeInputWords \cup {<<>>}) =>
               Range(selection.value) =
                   UNION { Range(parse_selection(t, max_value).value) :
                           t \in TokensOf(SpacelessInput) \ WholeInputWords }

\* a bad token between two good ones yields exactly the two good indices
C9_Witness ==
    /\ parse_pc = "done"
    /\ input_str = <<"1", ",", "x", ",", "3">>
    /\ max_value = 3
    /\ selection = [raised |-> FALSE, value |-> <<0, 2>>]

(***************************************************************************)
(* Device transfer engine (transfer.py)                                    *)
(***************************************************************************)
MaxTracks == 3         \* longest list of tracks to transfer

LastDot(name) ==
    IF Contains(name, ".")
    THEN CHOOSE i \in DOMAIN name :
             name[i] = "." /\ \A j \in (i + 1)..Len(name) : name[j] # "."
    ELSE 0

\* Path(name).suffix: from the last dot, unless it is the first or last character
suffix(name) ==
    LET k == LastDot(name)
    IN IF 1 < k /\ k < Len(name) THEN SubSeq(name, k, Len(name)) ELSE <<>>

\* Path(name).stem
stem(name) == SubSeq(name, 1, Len(name) - Len(suffix(name)))

\* the decimal digits of a counter, as f"{counter}" writes them
RECURSIVE str(_)
str(n) ==
    IF n < 10 THEN <<DigitChars[n + 1]>>
    ELSE str(n \div 10) \o <<DigitChars[(n % 10) + 1]>>

\* the "while True" loop of _get_unique_filename
RECURSIVE NumberedName(_, _, _, _)
NumberedName(st, sfx, counter, used_names) ==
    LET new_name == st \o <<"_">> \o str(counter) \o sfx
    IN IF lower(new_name) \notin used_names THEN new_name
       ELSE NumberedName(st, sfx, counter + 1, used_names)

\* _get_unique_filename comparing the names as they are written
get_unique_filename_case_sensitive(original_name, used_names) ==
    IF original_name \notin used_names THEN original_name
    ELSE NumberedName(stem(original_name), suffix(original_name), 1, used_names)

\* _get_unique_filename
_get_unique_filename(original_name, used_names) ==
    IF lower(original_name) \notin used_names THEN original_name
    ELSE NumberedName(stem(original_name), suffix(original_name), 1, used_names)

\* Config.music_extensions (the default)
music_extensions ==
    {<<".", "m", "p", "3">>, <<".", "m", "4", "a">>, <<".", "a", "a", "c">>}

\* any(part.startswith(".") for part in path.parts)
Hidden(parts) == \E i \in DOMAIN parts : parts[i] # <<>> /\ parts[i][1] = "."

IsUnder(dir, path) ==
    Len(dir) < Len(path) /\ SubSeq(path, 1, Len(dir)) = dir

\* is_shokz_mounted
is_shokz_mounted(mnt) == mnt

\* get_shokz_contents: the relative paths of the files listed (rglob yields
\* them in no particular order); the paths tested are the full paths
get_shokz_contents(tgt, mnt, dev, extensions) ==
    IF ~is_shokz_mounted(mnt) THEN {}
    ELSE { f \in dev.files :
             /\ ~Hidden(tgt \o f)
             /\ lower(suffix(f[Len(f)])) \in {lower(ext) : ext \in extensions} }

Orderings(S) == {s \in [1..Cardinality(S) -> S] : Range(s) = S}

\* the target directory itself, as a path relative to the target
Root == <<>>

\* root_path.rglob("*"): every file and directory below the root, not the root
rglob(dev) == dev.files \cup (dev.dirs \ {Root})

\* _remove_empty_dirs walking every directory of the tree, the root included
remove_empty_dirs_with_root(tgt, mnt, dev) ==
    IF ~mnt THEN dev
    ELSE [dev EXCEPT !.dirs =
            { d \in @ : \/ Hidden(tgt \o d)
                        \/ \E f \in dev.files : IsUnder(d, f)
                        \/ \E e \in dev.dirs : IsUnder(d, e) /\ Hidden(tgt \o e) }]

\* _remove_empty_dirs: bottom-up, every directory that rglob yields, is not
\* hidden and is empty once its removable subdirectories are gone is removed
_remove_empty_dirs(tgt, mnt, dev) ==
    IF ~mnt THEN dev
    ELSE [dev EXCEPT !.dirs =
            { d \in @ : \/ d \notin rglob(dev)
                        \/ Hidden(tgt \o d)
                        \/ \E f \in dev.files : IsUnder(d, f)
                        \/ \E e \in dev.dirs : IsUnder(d, e) /\ Hidden(tgt \o e) }]

\* TransferResult
TransferResult(success, files_copied, bytes_copied, errors) ==
    [success |-> success, files_copied |-> files_copied,
     bytes_copied |-> bytes_copied, errors |-> errors]

\* the error strings, by kind and by the name they mention
NotMountedAt(tgt) == [kind |-> "not_mounted_at", name |-> tgt]
NotMounted == [kind |-> "not_mounted", name |-> <<>>]
FailedToDelete(name) == [kind |-> "delete", name |-> name]
FailedToCopy(title) == [kind |-> "copy", name |-> title]

\* Tracks to transfer: XT1, XT2 and XT4 bear the same file name up to case,
\* XT3 bears the name that the first renaming of XT1's name produces.
XT1 == Track("lib1", <<"a", ".", "m", "p", "3">>, <<"S">>, <<"x">>, 600000, "mp3")
XT2 == Track("lib2", <<"A", ".", "m", "p", "3">>, <<"T">>, <<"x">>, 500000, "mp3")
XT3 == Track("lib1", <<"a", "_", "1", ".", "m", "p", "3">>, <<"U">>, <<"x">>, 400000, "mp3")
XT4 == Track("lib3", <<"a", ".", "m", "p", "3">>, <<"V">>, <<"y">>, 300000, "mp3")

TransferPool == {XT1, XT2, XT3, XT4}

\* mount points: /V/S, and /.m/S below a dot-prefixed directory
Targets == { << <<"/">>, <<"V">>, <<"S">> >>, << <<"/">>, <<".", "m">>, <<"S">> >> }

\* files on the device: o.mp3, d/p.M4A, .h/q.mp3, r.txt
DF1 == << <<"o", ".", "m", "p", "3">> >>
DF2 == << <<"d">>, <<"p", ".", "M", "4", "A">> >>
DF3 == << <<".", "h">>, <<"q", ".", "m", "p", "3">> >>
DF4 == << <<"r", ".", "t", "x", "t">> >>

DirsOf(files) ==
    {Root} \cup {SubSeq(f, 1, k) : <<f, k>> \in {p \in files \X (1..2) : p[2] < Len(p[1])}}

DeviceContents ==
    { [files |-> fs, dirs |-> DirsOf(fs)] :
        fs \in {{}, {DF1, DF4}, {DF2, DF3}, {DF1, DF2, DF3, DF4}} }

\* the lists handed over by the playlist: no path twice
TrackLists ==
    { ts \in SeqsUpTo(TransferPool, MaxTracks) :
        \A i, j \in DOMAIN ts : i # j => ts[i].path # ts[j].path }

InitTransfer ==
    /\ target \in Targets
    /\ mounted \in BOOLEAN
    /\ device \in DeviceContents
    /\ transfer_tracks \in TrackLists
    /\ transfer_pc = "start"
    /\ clearing = NoClearing
    /\ copying = NoCopying
    /\ result = None
    /\ phases = <<>>
    /\ PlaylistIdle
    /\ IndexIdle
    /\ ParseIdle
    /\ ScanIdle
    /\ StoreIdle

OtherThanTransfer == <<playlistVars, indexVars, parseVars, scanVars, storeVars>>

Return(res) ==
    /\ result' = res
    /\ transfer_pc' = "done"

\* perform_full_transfer: the mount check, then the call of clear_shokz_music
CheckMount ==
    /\ transfer_pc = "start"
    /\ IF ~is_shokz_mounted(mounted)
       THEN /\ Return(TransferResult(FALSE, 0, 0, <<NotMountedAt(target)>>))
            /\ phases' = phases \o <<"CHECKING_MOUNT">>
       ELSE /\ transfer_pc' = "clear_check"
            /\ phases' = phases \o <<"CHECKING_MOUNT", "CLEARING">>
            /\ UNCHANGED result
    /\ UNCHANGED <<target, mounted, device, transfer_tracks, clearing, copying,
                   OtherThanTransfer>>

\* clear_shokz_music: its own mount check; when it fails the call returns
\* (0, [error]) and perform_full_transfer returns the failure
ClearCheckMount ==
    /\ transfer_pc = "clear_check"
    /\ IF ~is_shokz_mounted(mounted)
       THEN /\ clearing' = [clearing EXCEPT !.errors = <<NotMounted>>]
            /\ Return(TransferResult(FALSE, 0, 0, <<NotMounted>>))
       ELSE /\ transfer_pc' = "clear_list"
            /\ UNCHANGED <<clearing, result>>
    /\ UNCHANGED <<target, mounted, device, transfer_tracks, copying, phases,
                   OtherThanTransfer>>

\* clear_shokz_music: files = get_shokz_contents(...), total, deleted, errors
ClearList ==
    /\ transfer_pc = "clear_list"
    /\ \E files \in Orderings(get_shokz_contents(target, mounted, device, music_extensions)) :
           clearing' = [files |-> files, i |-> 0, deleted |-> 0, errors |-> <<>>,
                        before |-> device, attempts |-> <<>>]
    /\ transfer_pc' = "clear_loop"
    /\ UNCHANGED <<target, mounted, device, transfer_tracks, copying, result, phases,
                   OtherThanTransfer>>

\* clear_shokz_music: one iteration of the loop; unlink succeeds or raises OSError
ClearDelete ==
    /\ transfer_pc = "clear_loop"
    /\ clearing.i < Len(clearing.files)
    /\ LET shokz_file == clearing.files[clearing.i + 1]
           tried == [clearing EXCEPT !.i = @ + 1, !.attempts = Append(@, shokz_file)]
       IN \/ /\ mounted
             /\ shokz_file \in device.files
             /\ device' = [device EXCEPT !.files = @ \ {shokz_file}]
             /\ clearing' = [tried EXCEPT !.deleted = @ + 1]
          \/ /\ clearing' = [tried EXCEPT
                               !.errors = Append(@, FailedToDelete(shokz_file[Len(shokz_file)]))]
             /\ UNCHANGED device
    /\ UNCHANGED <<target, mounted, transfer_tracks, transfer_pc, copying, result, phases,
                   OtherThanTransfer>>

\* perform_full_transfer going on to copy whatever clear_shokz_music returned
ClearFinishIgnoringErrors ==
    /\ transfer_pc = "clear_loop"
    /\ clearing.i = Len(clearing.files)
    /\ device' = _remove_empty_dirs(target, mounted, device)
    /\ transfer_pc' = "copy_check"
    /\ phases' = Append(phases, "COPYING")
    /\ UNCHANGED <<target, mounted, transfer_tracks, clearing, copying, result,
                   OtherThanTransfer>>

\* clear_shokz_music leaving its loop before every listed file was tried
ClearFinishEarly ==
    /\ transfer_pc = "clear_loop"
    /\ clearing.i <= Len(clearing.files)
    /\ device' = _remove_empty_dirs(target, mounted, device)
    /\ IF clearing.errors # <<>>
       THEN /\ Return(TransferResult(FALSE, 0, 0, clearing.errors))
            /\ UNCHANGED phases
       ELSE /\ transfer_pc' = "copy_check"
            /\ phases' = Append(phases, "COPYING")
            /\ UNCHANGED result
    /\ UNCHANGED <<target, mounted, transfer_tracks, clearing, copying, OtherThanTransfer>>

\* clear_shokz_music returns after _remove_empty_dirs; perform_full_transfer
\* fails on any clear error, and calls transfer_to_shokz otherwise
ClearFinish ==
    /\ transfer_pc = "clear_loop"
    /\ clearing.i = Len(clearing.files)
    /\ device' = _remove_empty_dirs(target, mounted, device)
    /\ IF clearing.errors # <<>>
       THEN /\ Return(TransferResult(FALSE, 0, 0, clearing.errors))
            /\ UNCHANGED phases
       ELSE /\ transfer_pc' = "copy_check"
            /\ phases' = Append(phases, "COPYING")
            /\ UNCHANGED result
    /\ UNCHANGED <<target, mounted, transfer_tracks, clearing, copying, OtherThanTransfer>>

\* transfer_to_shokz entering its loop without a mount check
TransferCheckMountSkipped ==
    /\ transfer_pc = "copy_check"
    /\ transfer_pc' = "copy_loop"
    /\ copying' = NoCopying
    /\ UNCHANGED <<target, mounted, device, transfer_tracks, clearing, result, phases,
                   OtherThanTransfer>>

\* transfer_to_shokz: the mount check and the initialisation of the loop
TransferCheckMount ==
    /\ transfer_pc = "copy_check"
    /\ IF ~is_shokz_mounted(mounted)
       THEN /\ Return(TransferResult(FALSE, 0, 0, <<NotMounted>>))
            /\ UNCHANGED copying
       ELSE /\ transfer_pc' = "copy_loop"
            /\ copying' = NoCopying
            /\ UNCHANGED result
    /\ UNCHANGED <<target, mounted, device, transfer_tracks, clearing, phases,
                   OtherThanTransfer>>

\* transfer_to_shokz leaving its loop at the first copy that fails
CopyTrackStopOnError ==
    /\ transfer_pc = "copy_loop"
    /\ copying.i < Len(transfer_tracks)
    /\ LET track == transfer_tracks[copying.i + 1]
           dest_name == _get_unique_filename(track.path.name, copying.used_names)
           named == [copying EXCEPT !.used_names = @ \cup {lower(dest_name)},
                                    !.dest_names = Append(@, dest_name)]
           Tried(ok) == [named EXCEPT
                           !.attempts = Append(@, [index |-> copying.i + 1, ok |-> ok])]
       IN \/ /\ mounted
             /\ device' = [device EXCEPT !.files = @ \cup {<<dest_name>>}]
             /\ copying' = [Tried(TRUE) EXCEPT !.i = @ + 1,
                                               !.copied = @ + 1,
                                               !.bytes_copied = @ + track.size_bytes]
          \/ /\ copying' = [Tried(FALSE) EXCEPT
                               !.i = Len(transfer_tracks),
                               !.errors = Append(@, FailedToCopy(track.title))]
             /\ UNCHANGED device
    /\ UNCHANGED <<target, mounted, transfer_tracks, transfer_pc, clearing, result, phases,
                   OtherThanTransfer>>

\* transfer_to_shokz: one iteration of the loop; copy2 succeeds or raises OSError
CopyTrack ==
    /\ transfer_pc = "copy_loop"
    /\ copying.i < Len(transfer_tracks)
    /\ LET track == transfer_tracks[copying.i + 1]
           dest_name == _get_unique_filename(track.path.name, copying.used_names)
           named == [copying EXCEPT !.i = @ + 1,
                                    !.used_names = @ \cup {lower(dest_name)},
                                    !.dest_names = Append(@, dest_name)]
           Tried(ok) == [named EXCEPT
                           !.attempts = Append(@, [index |-> copying.i + 1, ok |-> ok])]
       IN \/ /\ mounted
             /\ device' = [device EXCEPT !.files = @ \cup {<<dest_name>>}]
             /\ copying' = [Tried(TRUE) EXCEPT !.copied = @ + 1,
                                               !.bytes_copied = @ + track.size_bytes]
          \/ /\ copying' = [Tried(FALSE) EXCEPT
                               !.errors = Append(@, FailedToCopy(track.title))]
             /\ UNCHANGED device
    /\ UNCHANGED <<target, mounted, transfer_tracks, transfer_pc, clearing, result, phases,
                   OtherThanTransfer>>

\* transfer_to_shokz reporting success as soon as some file was copied
TransferReturnSuccessIfCopied ==
    /\ transfer_pc = "copy_loop"
    /\ copying.i = Len(transfer_tracks)
    /\ Return(TransferResult(copying.copied > 0 \/ copying.errors = <<>>, copying.copied,
                             copying.bytes_copied, copying.errors))
    /\ UNCHANGED <<target, mounted, device, transfer_tracks, clearing, copying, phases,
                   OtherThanTransfer>>

\* transfer_to_shokz returns its TransferResult, perform_full_transfer returns it
TransferReturn ==
    /\ transfer_pc = "copy_loop"
    /\ copying.i = Len(transfer_tracks)
    /\ Return(TransferResult(copying.errors = <<>>, copying.copied,
                             copying.bytes_copied, copying.errors))
    /\ UNCHANGED <<target, mounted, device, transfer_tracks, clearing, copying, phases,
                   OtherThanTransfer>>

\* the user unplugs the device, or plugs it in again, while a transfer runs
Unplug ==
    /\ transfer_pc \notin {"idle", "done"}
    /\ mounted
    /\ mounted' = FALSE
    /\ UNCHANGED <<target, device, transfer_tracks, transfer_pc, clearing, copying,
                   result, phases, OtherThanTransfer>>

Replug ==
    /\ transfer_pc \notin {"idle", "done"}
    /\ ~mounted
    /\ mounted' = TRUE
    /\ UNCHANGED <<target, device, transfer_tracks, transfer_pc, clearing, copying,
                   result, phases, OtherThanTransfer>>

NextTransfer ==
    \/ CheckMount
    \/ ClearCheckMount
    \/ ClearList
    \/ ClearDelete
    \/ ClearFinish
    \/ TransferCheckMount
    \/ CopyTrack
    \/ TransferReturn
    \/ Unplug
    \/ Replug

SpecTransfer == InitTransfer /\ [][NextTransfer]_vars

(***************************************************************************)
(* Properties of the transfer engine                                       *)
(***************************************************************************)
\* C1: in perform_full_transfer on a mounted target, if clear_shokz_music
\* returns a non-empty error list then the result has success=false,
\* files_copied=0, bytes_copied=0 and exactly the clear errors, and no track
\* copy is attempted: transfer_to_shokz is never entered.
C1_ClearErrorsStopTransfer ==
    clearing.errors # <<>> =>
        /\ "COPYING" \notin Range(phases)
        /\ transfer_pc \notin {"copy_check", "copy_loop"}
        /\ copying = NoCopying
        /\ transfer_pc = "done" =>
               result = TransferResult(FALSE, 0, 0, clearing.errors)

\* one device file was deleted, the other could not be, and tracks were waiting
C1_Witness ==
    /\ transfer_pc = "done"
    /\ clearing.deleted = 1
    /\ Len(clearing.errors) = 1
    /\ clearing.errors[1].kind = "delete"
    /\ transfer_tracks # <<>>
    /\ result = TransferResult(FALSE, 0, 0, clearing.errors)

SourceName(i) == transfer_tracks[i].path.name
Numbered(name, k) == stem(name) \o <<"_">> \o str(k) \o suffix(name)
SameName(i, j) == lower(SourceName(i)) = lower(SourceName(j))

\* C4 as claimed: the destination filenames are pairwise distinct under
\* case-insensitive comparison, the first track bearing a source filename
\* keeps it unchanged, and when exactly two tracks share a source filename
\* the second is written as <stem>_1<ext>.
C4_FirstKeepsSecondGetsOne ==
    LET dest == copying.dest_names
        n == Len(dest)
    IN transfer_pc = "done" =>
        /\ \A i, j \in 1..n : i # j => lower(dest[i]) # lower(dest[j])
        /\ \A i \in 1..n :
               (\A j \in 1..(i - 1) : ~SameName(i, j)) => dest[i] = SourceName(i)
        /\ \A i, j \in 1..n :
               (i < j /\ SameName(i, j) /\ \A k \in 1..n : SameName(i, k) => k \in {i, j})
                   => dest[j] = Numbered(SourceName(j), 1)

\* C4 as amended: the destination filenames are pairwise distinct under
\* case-insensitive comparison; a track whose source filename differs from
\* every destination filename chosen before it keeps that filename; any other
\* track is written as <stem>_k<ext> for the least k >= 1 whose name differs
\* from every destination filename chosen before it.
C4_UniqueNames ==
    LET dest == copying.dest_names
        n == Len(dest)
        Used(i) == {lower(dest[j]) : j \in 1..(i - 1)}
    IN /\ \A i, j \in 1..n : i # j => lower(dest[i]) # lower(dest[j])
       /\ \A i \in 1..n :
              IF lower(SourceName(i)) \notin Used(i)
              THEN dest[i] = SourceName(i)
              ELSE \E k \in 1..n :
                      /\ dest[i] = Numbered(SourceName(i), k)
                      /\ \A m \in 1..(k - 1) :
                             lower(Numbered(SourceName(i), m)) \in Used(i)

\* two tracks share a file name up to case and <stem>_1<ext> is taken by an
\* earlier track, so the second of the two is written as <stem>_2<ext>
C4_Witness ==
    /\ transfer_pc = "done"
    /\ transfer_tracks = <<XT3, XT1, XT2>>
    /\ copying.dest_names = <<XT3.path.name, XT1.path.name,
                              <<"A", "_", "2", ".", "m", "p", "3">> >>

\* C10: every TransferResult returned by transfer_to_shokz or
\* perform_full_transfer, on every path, has success = (errors is empty).
C10_SuccessIffNoErrors ==
    result # None => (result.success <=> result.errors = <<>>)

\* a copy that failed for one track and succeeded for another
C10_Witness ==
    /\ transfer_pc = "done"
    /\ result # None
    /\ result.files_copied > 0
    /\ result.errors # <<>>
    /\ ~result.success

\* a function's first statement is executed: the position changes
Enters(pc) == transfer_pc = pc /\ transfer_pc' # pc

NotMountedResult(res) ==
    /\ res # None
    /\ ~res.success
    /\ res.files_copied = 0
    /\ res.bytes_copied = 0
    /\ Len(res.errors) = 1

\* C11: when the target path is not an existing directory,
\* perform_full_transfer and transfer_to_shokz return success=false,
\* files_copied=0, bytes_copied=0 and exactly one error, clear_shokz_music
\* returns (0, one error), get_shokz_contents returns an empty list, and in
\* each of these cases no file is deleted from or copied to the device.
C11_UnmountedDoesNothing ==
    [][ /\ (Enters("start") /\ ~mounted) =>
              /\ transfer_pc' = "done"
              /\ NotMountedResult(result')
              /\ device' = device
        /\ (Enters("clear_check") /\ ~mounted) =>
              /\ transfer_pc' = "done"
              /\ clearing'.deleted = 0
              /\ Len(clearing'.errors) = 1
              /\ NotMountedResult(result')
              /\ device' = device
        /\ (Enters("clear_list") /\ ~mounted) =>
              /\ clearing'.files = <<>>
              /\ device' = device
        /\ (Enters("copy_check") /\ ~mounted) =>
              /\ transfer_pc' = "done"
              /\ NotMountedResult(result')
              /\ copying' = NoCopying
              /\ device' = device
      ]_vars

\* the device went away after a clearing that deleted a file, and
\* transfer_to_shokz, called with tracks, returned the failure
C11_Witness ==
    /\ transfer_pc = "done"
    /\ ~mounted
    /\ clearing.deleted > 0
    /\ "COPYING" \in Range(phases)
    /\ transfer_tracks # <<>>
    /\ copying = NoCopying
    /\ result = TransferResult(FALSE, 0, 0, <<NotMounted>>)

\* the errors that the failed attempts of a log produce, in the log's order
RECURSIVE ErrorsOf(_)
ErrorsOf(attempts) ==
    IF attempts = <<>> THEN <<>>
    ELSE LET a == Head(attempts)
         IN (IF a.ok THEN <<>> ELSE <<FailedToCopy(transfer_tracks[a.index].title)>>)
            \o ErrorsOf(Tail(attempts))

\* transfer_to_shokz returned from below its mount check
ReturnedFromCopyLoop ==
    /\ transfer_pc = "done"
    /\ "COPYING" \in Range(phases)
    /\ result.errors # <<NotMounted>>

\* C12: in transfer_to_shokz on a mounted target every track of the input is
\* attempted exactly once, in input order, whether or not earlier copies
\* failed, and no failed copy is retried; on return
\* files_copied + len(errors) = len(tracks) and the errors are in the order
\* of the failing tracks.
C12_EveryTrackOnce ==
    /\ Len(copying.attempts) = copying.i
    /\ \A k \in DOMAIN copying.attempts : copying.attempts[k].index = k
    /\ copying.copied + Len(copying.errors) = copying.i
    /\ copying.errors = ErrorsOf(copying.attempts)
    /\ ReturnedFromCopyLoop =>
           /\ Len(copying.attempts) = Len(transfer_tracks)
           /\ result.files_copied + Len(result.errors) = Len(transfer_tracks)
           /\ result.errors = ErrorsOf(copying.attempts)

\* the first and the third of three copies failed, the second succeeded
C12_Witness ==
    /\ ReturnedFromCopyLoop
    /\ Len(transfer_tracks) = 3
    /\ copying.attempts = <<[index |-> 1, ok |-> FALSE], [index |-> 2, ok |-> TRUE],
                            [index |-> 3, ok |-> FALSE]>>
    /\ result.files_copied = 1
    /\ result.errors = <<FailedToCopy(transfer_tracks[1].title),
                         FailedToCopy(transfer_tracks[3].title)>>

\* clear_shokz_music listed the device: it ran on a mounted target
Listed == clearing.before # None

\* clear_shokz_music has returned
Cleared == Listed /\ transfer_pc \in {"copy_check", "copy_loop", "done"}

IsMusic(f) == lower(suffix(f[Len(f)])) \in {lower(ext) : ext \in music_extensions}

\* C13: in clear_shokz_music on a mounted target, deletion is attempted
\* exactly once for every file returned by get_shokz_contents regardless of
\* earlier deletion failures, the deleted count plus the number of errors
\* equals the number of listed files, no file outside the listing (one with
\* a non-music extension or under a dot-prefixed path segment) is removed,
\* and the root directory is never removed.
C13_ClearOnlyListed ==
    Listed =>
        /\ \A j, k \in DOMAIN clearing.files :
               j # k => clearing.files[j] # clearing.files[k]
        /\ clearing.attempts = SubSeq(clearing.files, 1, clearing.i)
        /\ clearing.deleted + Len(clearing.errors) = clearing.i
        /\ Cleared =>
               /\ clearing.attempts = clearing.files
               /\ clearing.deleted + Len(clearing.errors) = Len(clearing.files)
        /\ (clearing.before.files \ Range(clearing.files)) \subseteq device.files
        /\ \A f \in clearing.before.files :
               (Hidden(f) \/ ~IsMusic(f)) => f \in device.files
        /\ Root \in device.dirs

\* of the two music files listed one was deleted and the other could not be,
\* and the hidden file and the text file are still on the device
C13_Witness ==
    /\ Cleared
    /\ clearing.before.files = {DF1, DF2, DF3, DF4}
    /\ clearing.files = <<DF1, DF2>>
    /\ clearing.deleted = 1
    /\ clearing.errors = <<FailedToDelete(DF1[1])>>
    /\ device.files = {DF1, DF3, DF4}

\* C27: whether get_shokz_contents lists a file depends only on the file's
\* location below the target (an accepted extension, whatever its case, and no
\* dot-prefixed segment in its path relative to the target), not on the
\* components of the target path: on a mounted target every non-hidden music
\* file below it is listed, and hence deleted by clear_shokz_music.
C27_ListingIgnoresTargetPath ==
    [][(transfer_pc = "clear_list" /\ transfer_pc' = "clear_loop" /\ mounted) =>
           Range(clearing'.files) = {f \in device.files : ~Hidden(f) /\ IsMusic(f)}
      ]_vars

\* the files written by the copying, as paths relative to the target
Written == {<<copying.dest_names[k]>> : k \in DOMAIN copying.dest_names}

\* C28: whenever perform_full_transfer returns success, the set of non-hidden
\* music files on the device is exactly the set of destination files written
\* by this transfer, one per input track: no music file that was on the device
\* before remains, and no two tracks were written to the same destination.
C28_MirrorAfterSuccess ==
    (transfer_pc = "done" /\ result.success) =>
        /\ {f \in device.files : ~Hidden(f) /\ IsMusic(f)} = Written
        /\ Len(copying.dest_names) = Len(transfer_tracks)
        /\ \A j, k \in DOMAIN copying.dest_names :
               j # k => lower(copying.dest_names[j]) # lower(copying.dest_names[k])

TransferPhases == <<"CHECKING_MOUNT", "CLEARING", "COPYING">>

IsPrefix(s, t) == Len(s) <= Len(t) /\ s = SubSeq(t, 1, Len(s))

\* the four ways in which a transfer ends
FailedNotMounted ==
    /\ phases = <<"CHECKING_MOUNT">>
    /\ ~result.success
    /\ result.errors = <<NotMountedAt(target)>>

FailedClearErrors ==
    /\ phases = <<"CHECKING_MOUNT", "CLEARING">>
    /\ ~result.success
    /\ result.errors # <<>>
    /\ result.errors = clearing.errors

Succeeded ==
    /\ phases = TransferPhases
    /\ result.success
    /\ result.errors = <<>>

FailedCopyErrors ==
    /\ phases = TransferPhases
    /\ ~result.success
    /\ result.errors # <<>>

Outcomes ==
    {k \in {"not_mounted", "clear_errors", "succeeded", "copy_errors"} :
        CASE k = "not_mounted" -> FailedNotMounted
          [] k = "clear_errors" -> FailedClearErrors
          [] k = "succeeded" -> Succeeded
          [] k = "copy_errors" -> FailedCopyErrors}

\* an upper bound of the number of statements that the run has yet to execute
StepsLeft ==
    CASE transfer_pc = "start" ->
             6 + Cardinality(device.files) + Len(transfer_tracks)
      [] transfer_pc = "clear_check" ->
             5 + Cardinality(device.files) + Len(transfer_tracks)
      [] transfer_pc = "clear_list" ->
             4 + Cardinality(device.files) + Len(transfer_tracks)
      [] transfer_pc = "clear_loop" ->
             3 + (Len(clearing.files) - clearing.i) + Len(transfer_tracks)
      [] transfer_pc = "copy_check" -> 2 + Len(transfer_tracks)
      [] transfer_pc = "copy_loop" -> 1 + (Len(transfer_tracks) - copying.i)
      [] OTHER -> 0

\* the run is at a statement that it can execute
CanExecute ==
    \/ transfer_pc \in {"start", "clear_check", "clear_list", "copy_check"}
    \/ transfer_pc = "clear_loop" /\ clearing.i <= Len(clearing.files)
    \/ transfer_pc = "copy_loop" /\ copying.i <= Len(transfer_tracks)

\* the run executes a statement (the device being plugged or unplugged is not one)
Executes == <<transfer_pc, clearing, copying, result, phases>>' #
                <<transfer_pc, clearing, copying, result, phases>>

Tags(title, artist) == [title |-> title, artist |-> artist]

FileEntry(dir, name, under, tags, size) ==
    [dir |-> dir, name |-> name, kind |-> "file", under |-> under, tags |-> tags,
     size |-> size]

DirEntry(dir, name, under) ==
    [dir |-> dir, name |-> name, kind |-> "dir", under |-> under, tags |-> None,
     size |-> 0]

\* lib1: a.mp3, d/, d/a.m4a (the same song in the other format, its title tag
\* padded with a blank), c.txt
Lib1Entries ==
    << FileEntry("lib1", <<"a", ".", "m", "p", "3">>, 0, Tags(<< <<"S">> >>, << <<"x">> >>), 600000),
       DirEntry("lib1", <<"d">>, 0),
       FileEntry("lib1/d", <<"a", ".", "m", "4", "a">>, 2, Tags(<< <<"s", " ">> >>, << <<"X">> >>),
                 500000),
       FileEntry("lib1", <<"c", ".", "t", "x", "t">>, 0, None, 10) >>

\* lib2: a.MP3, b.m4a without a title tag, z.mp3 that mutagen cannot read
Lib2Entries ==
    << FileEntry("lib2", <<"a", ".", "M", "P", "3">>, 0, Tags(<< <<"S">> >>, << <<"x">> >>), 600000),
       FileEntry("lib2", <<"b", ".", "m", "4", "a">>, 0, Tags(<<>>, << <<"x">> >>), 1048576),
       FileEntry("lib2", <<"z", ".", "m", "p", "3">>, 0, None, 5) >>

\* a source root: its path, what the access check meets, what rglob yields
SourceRoot(path, access, entries) ==
    [path |-> path, access |-> access, entries |-> entries]

RootPool ==
    { SourceRoot("lib1", "ok", Lib1Entries),
      SourceRoot("lib2", "ok", Lib2Entries),
      SourceRoot("nas1", "missing", <<>>),
      SourceRoot("vol/nas2", "no_parent", <<>>),
      SourceRoot("priv", "unreadable", <<>>),
      SourceRoot("locked", "unlistable", <<>>),
      SourceRoot("sealed/x", "stat_denied", <<>>),
      SourceRoot("stale", "io_error", <<>>) }

\* ScanError; the message is kept by its wording, without the path
ScanError(path, error_type, message) ==
    [path |-> path, error_type |-> error_type, message |-> message]

\* ScanResult
ScanResult(files, error) == [files |-> files, error |-> error]

\* check_directory_access: exists() is false with or without an existing
\* parent, os.access denies reading, iterdir raises PermissionError, exists()
\* raises PermissionError, or one of them raises another OSError
check_directory_access(directory) ==
    CASE directory.access = "missing" ->
             ScanError(directory.path, "not_found", "Path not found")
      [] directory.access = "no_parent" ->
             ScanError(directory.path, "not_found",
                       "Path not found (volume may not be mounted)")
      [] directory.access = "unreadable" ->
             ScanError(directory.path, "permission_denied", "Permission denied")
      [] directory.access = "unlistable" ->
             ScanError(directory.path, "permission_denied", "Permission denied")
      [] directory.access = "stat_denied" ->
             ScanError(directory.path, "permission_denied", "Permission denied")
      [] directory.access = "io_error" ->
             ScanError(directory.path, "not_found", "Cannot access path")
      [] OTHER -> None

\* _get_tag, _get_mp4_tag: the first value, stripped, or the default
_get_tag(values, default) ==
    IF values # <<>> THEN strip(values[1]) ELSE default

UnknownArtist ==
    <<"U", "n", "k", "n", "o", "w", "n", " ", "A", "r", "t", "i", "s", "t">>

\* extract_metadata: the format by the suffix, the title tag or else the stem;
\* None for any other suffix and for a file that mutagen cannot read
extract_metadata(file_path) ==
    LET sfx == lower(suffix(file_path.name))
        audio_format == IF sfx = <<".", "m", "p", "3">> THEN "mp3" ELSE "aac"
        audio == file_path.tags
    IN IF sfx \notin {<<".", "m", "p", "3">>, <<".", "m", "4", "a">>, <<".", "a", "a", "c">>}
       THEN None
       ELSE IF audio = None
       THEN None
       ELSE Track(file_path.dir, file_path.name,
                  _get_tag(audio.title, stem(file_path.name)),
                  _get_tag(audio.artist, UnknownArtist), file_path.size, audio_format)

InitScan ==
    /\ source_paths \in {<<primary, secondary>> : primary \in RootPool, secondary \in RootPool}
    /\ scanning = NoScanning
    /\ extracted = <<>>
    /\ format_preference \in FormatPreferences
    /\ deduplicated = <<>>
    /\ index_pc = "scan"
    /\ PlaylistIdle
    /\ ParseIdle
    /\ TransferIdle
    /\ StoreIdle

OtherThanScan == <<source_paths, indexVars, playlistVars, parseVars, transferVars, storeVars>>

\* build_index going on to extract metadata after the first root that fails
ScanDirectoryCheckAbort ==
    /\ index_pc = "scan"
    /\ scanning.pc = "check"
    /\ scanning.r <= Len(source_paths)
    /\ LET directory == source_paths[scanning.r]
           error == check_directory_access(directory)
       IN IF error # None
          THEN scanning' = [scanning EXCEPT !.r = Len(source_paths) + 1,
                                            !.errors = Append(@, error),
                                            !.scanned = Append(@, scanning.r)]
          ELSE scanning' = [scanning EXCEPT !.pc = "walk", !.k = 0, !.files = <<>>,
                                            !.skipped = {}]
    /\ UNCHANGED OtherThanScan

\* build_index calls scan_directory for the next root: the access check; a
\* failing root returns ScanResult([], error), which build_index records
ScanDirectoryCheck ==
    /\ index_pc = "scan"
    /\ scanning.pc = "check"
    /\ scanning.r <= Len(source_paths)
    /\ LET directory == source_paths[scanning.r]
           error == check_directory_access(directory)
       IN IF error # None
          THEN scanning' = [scanning EXCEPT !.r = @ + 1,
                                            !.errors = Append(@, error),
                                            !.scanned = Append(@, scanning.r)]
          ELSE scanning' = [scanning EXCEPT !.pc = "walk", !.k = 0, !.files = <<>>,
                                            !.skipped = {}]
    /\ UNCHANGED OtherThanScan

Walking ==
    /\ index_pc = "scan"
    /\ scanning.pc = "walk"
    /\ scanning.k < Len(source_paths[scanning.r].entries)

NextEntry == source_paths[scanning.r].entries[scanning.k + 1]

Yielded == NextEntry.under \notin scanning.skipped

Matches(file_path) ==
    /\ file_path.kind = "file"
    /\ lower(suffix(file_path.name)) \in {lower(ext) : ext \in music_extensions}

\* scan_directory: one step of the walk; an entry below a directory that could
\* not be listed is not yielded, a matching file is appended
ScanEntry ==
    /\ Walking
    /\ scanning' =
           IF ~Yielded
           THEN [scanning EXCEPT !.k = @ + 1,
                                 !.skipped = IF NextEntry.kind = "dir"
                                             THEN @ \cup {scanning.k + 1} ELSE @]
           ELSE IF Matches(NextEntry)
           THEN [scanning EXCEPT !.k = @ + 1, !.files = Append(@, NextEntry)]
           ELSE [scanning EXCEPT !.k = @ + 1]
    /\ UNCHANGED OtherThanScan

\* scan_directory: is_file() finds the file gone or raises PermissionError, which
\* the loop catches, or rglob cannot list a directory for want of permission
\* and passes over it: the walk goes on
ScanEntryInaccessible ==
    /\ Walking
    /\ Yielded
    /\ scanning' = [scanning EXCEPT
                       !.k = @ + 1,
                       !.skipped = IF NextEntry.kind = "dir"
                                   THEN @ \cup {scanning.k + 1} ELSE @,
                       !.faults = @ \cup {<<scanning.r, scanning.k + 1>>}]
    /\ UNCHANGED OtherThanScan

\* scan_directory: is_file() or the listing of a directory raises an OSError
\* that is not a PermissionError (the directory is gone, an I/O error); no
\* handler of scan_directory or build_index catches it
ScanEntryRaises ==
    /\ Walking
    /\ Yielded
    /\ scanning' = [scanning EXCEPT !.faults = @ \cup {<<scanning.r, scanning.k + 1>>}]
    /\ index_pc' = "raised"
    /\ UNCHANGED <<source_paths, extracted, format_preference, deduplicated,
                   playlistVars, parseVars, transferVars, storeVars>>

\* scan_directory: the iteration itself raises PermissionError at a directory;
\* the files found so far are returned with a root-level error
ScanWalkDenied ==
    /\ Walking
    /\ Yielded
    /\ NextEntry.kind = "dir"
    /\ LET directory == source_paths[scanning.r]
           res == ScanResult(scanning.files,
                             ScanError(directory.path, "permission_denied",
                                       "Permission denied while scanning"))
       IN scanning' = [scanning EXCEPT
                         !.pc = "check", !.r = @ + 1,
                         !.all_files = @ \o res.files,
                         !.errors = Append(@, res.error),
                         !.scanned = Append(@, scanning.r),
                         !.faults = @ \cup {<<scanning.r, scanning.k + 1>>},
                         !.escalated = @ \cup {scanning.r}]
    /\ UNCHANGED OtherThanScan

\* scan_directory returns ScanResult(files); build_index extends all_files
ScanDirectoryReturn ==
    /\ index_pc = "scan"
    /\ scanning.pc = "walk"
    /\ scanning.k = Len(source_paths[scanning.r].entries)
    /\ scanning' = [scanning EXCEPT !.pc = "check", !.r = @ + 1,
                                    !.all_files = @ \o scanning.files,
                                    !.scanned = Append(@, scanning.r)]
    /\ UNCHANGED OtherThanScan

RECURSIVE ExtractAll(_)
ExtractAll(files) ==
    IF files = <<>> THEN <<>>
    ELSE LET track == extract_metadata(Head(files))
         IN (IF Truthy(track) THEN <<track>> ELSE <<>>) \o ExtractAll(Tail(files))

\* build_index: the metadata of all files, in order, without those unreadable
ExtractMetadata ==
    /\ index_pc = "scan"
    /\ scanning.pc = "check"
    /\ scanning.r > Len(source_paths)
    /\ extracted' = ExtractAll(scanning.all_files)
    /\ index_pc' = "extracted"
    /\ UNCHANGED <<format_preference, deduplicated, scanVars, playlistVars, parseVars,
                   transferVars, storeVars>>

NextScan ==
    \/ ScanDirectoryCheck
    \/ ScanEntry
    \/ ScanEntryInaccessible
    \/ ScanEntryRaises
    \/ ScanWalkDenied
    \/ ScanDirectoryReturn
    \/ ExtractMetadata
    \/ Deduplicate

SpecScan == InitScan /\ [][NextScan]_vars

(***************************************************************************)
(* Properties of the library scan                                          *)
(***************************************************************************)
\* the scan of root r ended with an error
Failing(r) == source_paths[r].access # "ok" \/ r \in scanning.escalated

\* the failing roots among the first n, in root order
RECURSIVE FailingRoots(_)
FailingRoots(n) ==
    IF n = 0 THEN <<>>
    ELSE FailingRoots(n - 1) \o (IF Failing(n) THEN <<n>> ELSE <<>>)

\* entry k of root r and the directories above it stayed accessible
RECURSIVE Accessible(_, _)
Accessible(r, k) ==
    /\ <<r, k>> \notin scanning.faults
    /\ LET under == source_paths[r].entries[k].under
       IN under # 0 => Accessible(r, under)

\* the matching files of root r that stayed accessible
AccessibleFiles(r) ==
    { source_paths[r].entries[k] :
        k \in { j \in DOMAIN source_paths[r].entries :
                  Matches(source_paths[r].entries[j]) /\ Accessible(r, j) } }

\* the matching files of the roots that were scanned without an error
FilesOfAccessibleRoots ==
    UNION { AccessibleFiles(r) : r \in { q \in DOMAIN source_paths : ~Failing(q) } }

ScanLoopDone == index_pc \in {"extracted", "done"}

\* C14: build_index scans every configured source root even when an earlier
\* root is not found or permission-denied: the tracks from the accessible
\* roots are still returned, exactly one ScanError is recorded per failing
\* root, in root order and carrying that root's path, and every recorded
\* error_type is 'not_found' or 'permission_denied'.
C14_EveryRootScanned ==
    LET returned == Len(scanning.scanned)
        failing == FailingRoots(returned)
    IN /\ scanning.scanned = [r \in 1..returned |-> r]
       /\ Len(scanning.errors) = Len(failing)
       /\ \A k \in DOMAIN failing :
              /\ scanning.errors[k].path = source_paths[failing[k]].path
              /\ scanning.errors[k].error_type \in {"not_found", "permission_denied"}
       /\ ScanLoopDone =>
              /\ returned = Len(source_paths)
              /\ FilesOfAccessibleRoots \subseteq Range(scanning.all_files)
       /\ index_pc = "done" =>
              \A file_path \in FilesOfAccessibleRoots :
                  Truthy(extract_metadata(file_path)) =>
                      \E track \in Range(deduplicated) :
                          dedupe_key(track) = dedupe_key(extract_metadata(file_path))

\* the primary root is missing and the song of the secondary root is returned
C14_Witness ==
    /\ index_pc = "done"
    /\ source_paths[1].access = "missing"
    /\ source_paths[2].path = "lib1"
    /\ scanning.faults = {}
    /\ Len(scanning.errors) = 1
    /\ scanning.errors[1].path = source_paths[1].path
    /\ Len(deduplicated) = 1

\* C15: during scan_directory of a root that passed the initial access
\* check, a file or subdirectory that becomes inaccessible mid-walk is
\* skipped silently: the scan of that root still returns success (error is
\* None) with all the other matching files, and no root-level ScanError is
\* produced.
C15_MidWalkSkipped ==
    \A r \in DOMAIN source_paths :
        (\E k \in DOMAIN source_paths[r].entries : <<r, k>> \in scanning.faults) =>
            /\ index_pc # "raised"
            /\ r \notin scanning.escalated
            /\ r \in Range(scanning.scanned) =>
                   AccessibleFiles(r) \subseteq Range(scanning.all_files)

(***************************************************************************)
(* Cache and session files (indexer.py, playlist.py)                       *)
(*                                                                         *)
(* The content of a file is the JSON value that json.load reads from it,   *)
(* tagged with its type, or no JSON at all.                                *)
(***************************************************************************)
NotJson == [t |-> "invalid"]
JNull == [t |-> "null"]
JNum(n) == [t |-> "number", v |-> n]
JStr(chars) == [t |-> "string", v |-> chars]
JArr(items) == [t |-> "array", v |-> items]
JObj(fields) == [t |-> "object", v |-> fields]

\* the outcome of a call: a value, None, or an exception that leaves it
Returned(v) == [raised |-> "none", none |-> FALSE, value |-> v]
ReturnedNone == [raised |-> "none", none |-> TRUE, value |-> <<>>]
Raised(exception) == [raised |-> exception, none |-> FALSE, value |-> <<>>]

\* try: ... except (caught): return None
Except(outcome, caught) ==
    IF outcome.raised \in caught THEN ReturnedNone ELSE outcome

\* json.load
json_load(file) ==
    IF file.data.t = "invalid" THEN Raised("JSONDecodeError") ELSE Returned(file.data)

\* dict.get(key, default)
dict_get(data, key, default) ==
    IF key \in DOMAIN data.v THEN data.v[key] ELSE default

\* len(x): TypeError for a number or null
len(x) ==
    IF x.t \in {"array", "string"} THEN Returned(Len(x.v))
    ELSE IF x.t = "object" THEN Returned(Cardinality(DOMAIN x.v))
    ELSE Raised("TypeError")

\* for item in x: the items of a list, the characters of a string, the keys
\* of a dict; TypeError for a number or null
iter(x) ==
    IF x.t = "array" THEN Returned(x.v)
    ELSE IF x.t = "string" THEN Returned([i \in 1..Len(x.v) |-> JStr(<<x.v[i]>>)])
    ELSE IF x.t = "object"
    THEN Returned(LET keys == CHOOSE ks \in Orderings(DOMAIN x.v) : TRUE
                  IN [i \in DOMAIN keys |-> JStr(keys[i])])
    ELSE Raised("TypeError")

\* the Python value that a JSON string or number is read as
PyVal(j) == IF j.t \in {"string", "number"} THEN j.v ELSE j

\* the directories of the tracks, by their parts
Dirs == {"lib1", "lib2", "lib3", "lib1/d"}

DirParts(dir) ==
    CASE dir = "lib1" -> << <<"l", "i", "b", "1">> >>
      [] dir = "lib2" -> << <<"l", "i", "b", "2">> >>
      [] dir = "lib3" -> << <<"l", "i", "b", "3">> >>
      [] dir = "lib1/d" -> << <<"l", "i", "b", "1">>, <<"d">> >>

RECURSIVE join(_, _)
join(parts, sep) ==
    IF Len(parts) = 1 THEN parts[1]
    ELSE parts[1] \o <<sep>> \o join(Tail(parts), sep)

\* str(track.path)
path_str(path) == join(DirParts(path.dir) \o <<path.name>>, "/")

\* Path(s): the parts between slashes, without the empty ones and the dots
Path(s) ==
    LET IsPart(q) == q # <<>> /\ q # <<".">>
        parts == SelectSeq(split(s, "/"), IsPart)
        n == Len(parts)
    IN [dir |-> CHOOSE d \in Dirs : DirParts(d) = SubSeq(parts, 1, n - 1),
        name |-> parts[n]]

TrackFields == {"path", "title", "artist", "album", "genre", "size_bytes", "format"}

\* the record of a track that save_session and save_cache write
TrackRecord(track) ==
    JObj([path |-> JStr(path_str(track.path)),
          title |-> JStr(track.title),
          artist |-> JStr(track.artist),
          album |-> JStr(track.album),
          genre |-> JStr(track.genre),
          size_bytes |-> JNum(track.size_bytes),
          format |-> JStr(track.format)])

\* Track(path=Path(track_dict["path"]), title=track_dict["title"], ...):
\* TypeError when track_dict is not a dict or the path is not a string,
\* KeyError when a key is missing; no other field is looked at
TrackOf(track_dict) ==
    IF track_dict.t # "object" THEN Raised("TypeError")
    ELSE IF \E key \in TrackFields : key \notin DOMAIN track_dict.v THEN Raised("KeyError")
    ELSE IF track_dict.v.path.t # "string" THEN Raised("TypeError")
    ELSE Returned([path |-> Path(track_dict.v.path.v),
                   title |-> PyVal(track_dict.v.title),
                   artist |-> PyVal(track_dict.v.artist),
                   album |-> PyVal(track_dict.v.album),
                   genre |-> PyVal(track_dict.v.genre),
                   size_bytes |-> PyVal(track_dict.v.size_bytes),
                   format |-> PyVal(track_dict.v.format)])

\* the loop over data.get("tracks", []) of load_cache and load_session
RECURSIVE TracksOf(_)
TracksOf(items) ==
    IF items = <<>> THEN Returned(<<>>)
    ELSE LET track == TrackOf(Head(items))
         IN IF track.raised # "none" THEN track
            ELSE LET rest == TracksOf(Tail(items))
                 IN IF rest.raised # "none" THEN rest
                    ELSE Returned(<<track.value>> \o rest.value)

LoadTracks(data) ==
    LET items == iter(dict_get(data, "tracks", JArr(<<>>)))
    IN IF items.raised # "none" THEN items ELSE TracksOf(items.value)

\* get_cache_info: {"cached_at", "track_count"} or None
get_cache_info(file) ==
    IF ~file.exists THEN ReturnedNone
    ELSE LET data == json_load(file)
             tracks == dict_get(data.value, "tracks", JArr(<<>>))
         IN Except(IF data.raised # "none" THEN data
                   ELSE IF data.value.t # "object" THEN Raised("AttributeError")
                   ELSE IF len(tracks).raised # "none" THEN len(tracks)
                   ELSE Returned([cached_at |-> dict_get(data.value, "cached_at",
                                                         JStr("Unknown")),
                                  track_count |-> len(tracks).value]),
                   {"JSONDecodeError", "KeyError"})

\* load_cache: the list of tracks or None
load_cache(file) ==
    IF ~file.exists THEN ReturnedNone
    ELSE LET data == json_load(file)
         IN Except(IF data.raised # "none" THEN data
                   ELSE IF data.value.t # "object" THEN Raised("AttributeError")
                   ELSE LoadTracks(data.value),
                   {"JSONDecodeError", "KeyError", "TypeError"})

\* save_cache: the record written
CacheRecord(tracks) ==
    JObj([cached_at |-> JStr("now"),
          track_count |-> JNum(Len(tracks)),
          tracks |-> JArr([i \in DOMAIN tracks |-> TrackRecord(tracks[i])])])

\* get_session_info: {"saved_at", "track_count", "total_size_mb"} or None
get_session_info(file) ==
    IF ~file.exists THEN ReturnedNone
    ELSE LET data == json_load(file)
         IN Except(IF data.raised # "none" THEN data
                   ELSE IF data.value.t # "object" THEN Raised("AttributeError")
                   ELSE Returned([saved_at |-> dict_get(data.value, "saved_at",
                                                        JStr("Unknown")),
                                  track_count |-> dict_get(data.value, "track_count",
                                                           JNum(0)),
                                  total_size_mb |-> dict_get(data.value, "total_size_mb",
                                                             JNum(0))]),
                   {"JSONDecodeError", "KeyError"})

DefaultCapacity == 4000

\* load_session building the playlist with the default capacity
load_session_default_capacity(file) ==
    IF ~file.exists THEN ReturnedNone
    ELSE LET data == json_load(file)
             tracks == LoadTracks(data.value)
         IN Except(IF data.raised # "none" THEN data
                   ELSE IF data.value.t # "object" THEN Raised("AttributeError")
                   ELSE IF tracks.raised # "none" THEN tracks
                   ELSE Returned([capacity_mb |-> DefaultCapacity,
                                  tracks |-> tracks.value]),
                   {"JSONDecodeError", "KeyError", "TypeError"})

\* load_session: a Playlist with the capacity and the tracks read, or None
load_session(file) ==
    IF ~file.exists THEN ReturnedNone
    ELSE LET data == json_load(file)
             capacity == dict_get(data.value, "capacity_mb", JNum(DefaultCapacity))
             tracks == LoadTracks(data.value)
         IN Except(IF data.raised # "none" THEN data
                   ELSE IF data.value.t # "object" THEN Raised("AttributeError")
                   ELSE IF tracks.raised # "none" THEN tracks
                   ELSE Returned([capacity_mb |-> PyVal(capacity),
                                  tracks |-> tracks.value]),
                   {"JSONDecodeError", "KeyError", "TypeError"})

\* round(playlist.total_size_mb, 2), in hundredths of a megabyte
RoundedSizeMb(pl) ==
    LET mb == total_size_mb(pl)
    IN  mb.whole * 100 + (mb.frac * 200 + BytesPerMB) \div (2 * BytesPerMB)

\* save_session: the record written
SessionRecord(pl) ==
    JObj([saved_at |-> JStr("now"),
          track_count |-> JNum(Len(pl.tracks)),
          total_size_mb |-> JNum(RoundedSizeMb(pl)),
          capacity_mb |-> JNum(pl.capacity_mb),
          tracks |-> JArr([i \in DOMAIN pl.tracks |-> TrackRecord(pl.tracks[i])])])

\* a file holding a JSON value or something else
FileOf(kind, data) == [exists |-> TRUE, kind |-> kind, data |-> data]

RecordWithout(record, key) == JObj([k \in DOMAIN record.v \ {key} |-> record.v[k]])
RecordWith(record, key, value) == JObj([record.v EXCEPT ![key] = value])
WithTracks(record, items) == RecordWith(record, "tracks", JArr(items))

\* library_cache.json: missing, not JSON, a list at the top level, a track
\* record without "genre", a track record whose title is a number, a cache
\* that save_cache wrote
CacheFiles ==
    { NoFile,
      FileOf("not_json", NotJson),
      FileOf("not_object", JArr(<<>>)),
      FileOf("missing_field",
             WithTracks(CacheRecord(<<DT1>>), <<RecordWithout(TrackRecord(DT1), "genre")>>)),
      FileOf("wrong_type",
             WithTracks(CacheRecord(<<DT1>>), <<RecordWith(TrackRecord(DT1), "title", JNum(5))>>)),
      FileOf("valid", CacheRecord(<<DT1, DT4>>)) }

SavedPlaylist == [capacity_mb |-> 2, tracks |-> <<PT1, PT3>>]

\* playlist_session.json: missing, not JSON, a list at the top level, a track
\* record without "genre", a track record whose size_bytes is a string, a
\* session that save_session wrote
SessionFiles ==
    { NoFile,
      FileOf("not_json", NotJson),
      FileOf("not_object", JArr(<<>>)),
      FileOf("missing_field",
             WithTracks(SessionRecord(SavedPlaylist),
                        <<RecordWithout(TrackRecord(PT1), "genre")>>)),
      FileOf("wrong_type",
             WithTracks(SessionRecord(SavedPlaylist),
                        <<RecordWith(TrackRecord(PT1), "size_bytes", JStr(<<"9">>))>>)),
      FileOf("valid", SessionRecord(SavedPlaylist)) }

\* what build_index finds when the library is scanned
ScanOutcomes == { <<>>, <<DT1, DT4>> }

InitStartup ==
    /\ cache_file \in CacheFiles
    /\ session_file \in SessionFiles
    /\ library = <<>>
    /\ loaded = NotCalled
    /\ startup = [pc |-> "library", calls |-> <<>>, rescanned |-> FALSE,
                  cache_kind |-> cache_file.kind, session_kind |-> session_file.kind,
                  write_failed |-> FALSE]
    /\ \E c \in Capacities : config = [capacity_mb |-> c]
    /\ playlist = [capacity_mb |-> config.capacity_mb, tracks |-> <<>>]
    /\ call = NoCall
    /\ IndexIdle
    /\ ParseIdle
    /\ TransferIdle
    /\ ScanIdle

OtherThanStore == <<call, indexVars, parseVars, transferVars, scanVars>>

Log(fn, file, outcome) ==
    [fn |-> fn, kind |-> file.kind, raised |-> outcome.raised, none |-> outcome.none]

\* startup_library_choice ending: the step main goes to, the calls made, the
\* library, the cache file and what load_cache returned
LibraryStep(pc, calls, rescanned, tracks, file, outcome) ==
    /\ startup' = [startup EXCEPT !.pc = pc, !.calls = calls, !.rescanned = rescanned]
    /\ library' = tracks
    /\ cache_file' = file
    /\ loaded' = outcome

\* scan_library caching whatever the scan found
ScanLibrarySavingAlways(calls) ==
    \/ LibraryStep("crashed", calls, TRUE, library, cache_file, loaded)
    \/ \E found \in ScanOutcomes :
           LibraryStep(IF Len(found) > 0 THEN "session" ELSE "exited", calls, TRUE, found,
                       FileOf("valid", CacheRecord(found)), loaded)

\* scan_library(save_to_cache=True): build_index raises (see ScanEntryRaises),
\* or returns the tracks found, which are cached when there are any; main
\* returns when none was found
ScanLibrary(calls) ==
    \/ LibraryStep("crashed", calls, TRUE, library, cache_file, loaded)
    \/ \E found \in ScanOutcomes :
           LibraryStep(IF Len(found) > 0 THEN "session" ELSE "exited", calls, TRUE, found,
                       IF Len(found) > 0 THEN FileOf("valid", CacheRecord(found))
                       ELSE cache_file,
                       loaded)

\* main: startup_library_choice, with the user's answer to the menu
StartupLibraryChoice ==
    /\ startup.pc = "library"
    /\ LET cache_info == get_cache_info(cache_file)
           asked == Append(startup.calls, Log("get_cache_info", cache_file, cache_info))
           cached_tracks == load_cache(cache_file)
           read == Append(asked, Log("load_cache", cache_file, cached_tracks))
       IN IF ~cache_file.exists THEN ScanLibrary(startup.calls)
          ELSE IF cache_info.raised # "none"
          THEN LibraryStep("crashed", asked, FALSE, library, cache_file, loaded)
          ELSE IF cache_info.none THEN ScanLibrary(asked)
          ELSE \/ IF cached_tracks.raised # "none"
                  THEN LibraryStep("crashed", read, FALSE, library, cache_file, cached_tracks)
                  ELSE IF cached_tracks.none
                  THEN LibraryStep("exited", read, FALSE, library, cache_file, cached_tracks)
                  ELSE LibraryStep("session", read, FALSE, cached_tracks.value, cache_file,
                                   cached_tracks)
               \/ ScanLibrary(asked)
               \/ LibraryStep("exited", asked, FALSE, library, cache_file, loaded)
    /\ UNCHANGED <<session_file, playlist, config, OtherThanStore>>

\* startup_playlist_session ending
SessionStep(pc, calls, pl, file, outcome) ==
    /\ startup' = [startup EXCEPT !.pc = pc, !.calls = calls]
    /\ playlist' = pl
    /\ session_file' = file
    /\ loaded' = outcome

\* f"{x:.1f}" raises for anything but a number
Formats(x) == x.t = "number"

\* playlist.total_size_mb sums the size_bytes read from the file
SizesAdd(file) ==
    \A i \in DOMAIN file.data.v.tracks.v : file.data.v.tracks.v[i].v.size_bytes.t = "number"

\* main: startup_playlist_session, with the user's answer to the menu
StartupPlaylistSession ==
    /\ startup.pc = "session"
    /\ LET info == get_session_info(session_file)
           asked == Append(startup.calls, Log("get_session_info", session_file, info))
           loaded_playlist == load_session(session_file)
           read == Append(asked, Log("load_session", session_file, loaded_playlist))
       IN IF ~session_file.exists
          THEN SessionStep("menu", startup.calls, playlist, session_file, loaded)
          ELSE IF info.raised # "none"
          THEN SessionStep("crashed", asked, playlist, session_file, loaded)
          ELSE IF info.none
          THEN SessionStep("menu", asked, playlist, session_file, loaded)
          ELSE IF ~Formats(info.value.total_size_mb)
          THEN SessionStep("crashed", asked, playlist, session_file, loaded)
          ELSE \/ IF loaded_playlist.raised # "none"
                  THEN SessionStep("crashed", read, playlist, session_file, loaded_playlist)
                  ELSE IF loaded_playlist.none
                  THEN SessionStep("menu", read, playlist, NoFile, loaded_playlist)
                  ELSE SessionStep(IF SizesAdd(session_file) THEN "menu" ELSE "crashed",
                                   read, loaded_playlist.value, session_file,
                                   loaded_playlist)
               \/ SessionStep("menu", asked, playlist, NoFile, loaded)
               \/ SessionStep("menu", asked, playlist, session_file, loaded)
    /\ UNCHANGED <<cache_file, library, config, OtherThanStore>>

NextStartup ==
    \/ StartupLibraryChoice
    \/ StartupPlaylistSession

SpecStartup == InitStartup /\ [][NextStartup]_vars

\* startup_playlist_session found a session file and read it
SessionRead == \E i \in DOMAIN startup.calls : startup.calls[i].fn = "get_session_info"

\* C16: for every content of the cache or session file (missing, not valid
\* JSON, valid JSON whose top level is not an object, a track record missing
\* a field or with a wrongly typed field), get_cache_info, load_cache,
\* get_session_info and load_session return None without raising, and
\* startup then continues by rescanning the library (cache) or with an empty
\* playlist (session) instead of crashing or exiting.
C16_CorruptFilesAreAbsent ==
    /\ \A i \in DOMAIN startup.calls :
           startup.calls[i].kind # "valid" =>
               startup.calls[i].raised = "none" /\ startup.calls[i].none
    /\ (startup.cache_kind # "valid" /\ startup.pc # "library") => startup.rescanned
    /\ (startup.session_kind # "valid" /\ (SessionRead \/ startup.pc = "menu")) =>
           startup.pc = "menu" /\ playlist.tracks = <<>>

(***************************************************************************)
(* Saving and restoring the session (playlist.py)                          *)
(***************************************************************************)
\* a file in a subdirectory of the primary root, its title ending in a space
PT5 == Track("lib1/d", <<"a", ".", "m", "4", "a">>, <<"s", " ">>, <<"X">>, 500000, "aac")

SessionPool == {PT1, PT3, PT5}

InitSession ==
    /\ \E c \in ConfiguredCapacities : playlist = [capacity_mb |-> c, tracks |-> <<>>]
    /\ call = NoCall
    /\ IndexIdle
    /\ ParseIdle
    /\ TransferIdle
    /\ ScanIdle
    /\ StoreIdle

SessionCalled(op, arg, ret, file) ==
    /\ call' = [op |-> op, arg |-> arg, ret |-> ret, before |-> playlist.tracks]
    /\ session_file' = file
    /\ UNCHANGED <<playlist, cache_file, library, loaded, startup, config>>
    /\ UNCHANGED <<indexVars, parseVars, transferVars, scanVars>>

SessionAdd ==
    \E t \in SessionPool : Called("add", t, add(playlist, t))

\* save_session(playlist): the record is written and True returned; or the
\* file cannot be opened, or the writing fails part way, and False is returned
SaveSession ==
    \/ SessionCalled("save_session", playlist, TRUE, FileOf("valid", SessionRecord(playlist)))
    \/ SessionCalled("save_session", playlist, FALSE, session_file)
    \/ SessionCalled("save_session", playlist, FALSE, FileOf("not_json", NotJson))

\* load_session(): call.arg is the file read and call.ret the outcome
LoadSession ==
    SessionCalled("load_session", session_file, load_session(session_file), session_file)

NextSession ==
    \/ SessionAdd
    \/ SaveSession
    \/ LoadSession

SpecSession == InitSession /\ [][NextSession]_vars

\* the playlists that can be handed to save_session
RECURSIVE DistinctPaths(_)
DistinctPaths(tracks) ==
    \/ tracks = <<>>
    \/ /\ ~HasPath(Tail(tracks), Head(tracks).path)
       /\ DistinctPaths(Tail(tracks))

SavedPlaylists ==
    { [capacity_mb |-> c, tracks |-> ts] :
        c \in ConfiguredCapacities,
        ts \in {q \in SeqsUpTo(SessionPool, Cardinality(SessionPool)) : DistinctPaths(q)} }

\* load_session returned a playlist equal to p, field by field
Restores(outcome, p) ==
    /\ outcome.raised = "none"
    /\ ~outcome.none
    /\ outcome.value.capacity_mb = p.capacity_mb
    /\ Len(outcome.value.tracks) = Len(p.tracks)
    /\ \A i \in DOMAIN p.tracks :
           LET read == outcome.value.tracks[i]
               saved == p.tracks[i]
           IN  /\ read.path = saved.path
               /\ read.title = saved.title
               /\ read.artist = saved.artist
               /\ read.album = saved.album
               /\ read.genre = saved.genre
               /\ read.size_bytes = saved.size_bytes
               /\ read.format = saved.format

\* C19: for every Playlist p, load_session applied to the record written by
\* save_session(p) yields a playlist with the same capacity_mb and the same
\* ordered track list with every Track field equal, and the written record's
\* track_count equals the number of tracks written.
C19_SessionRoundTrip ==
    /\ (call.op = "save_session" /\ call.ret) =>
           LET record == session_file.data.v
           IN  /\ Len(record.tracks.v) = Len(call.arg.tracks)
               /\ record.track_count = JNum(Len(record.tracks.v))
    /\ (call.op = "load_session" /\ call.arg.exists /\ call.arg.data.t = "object") =>
           /\ \E p \in SavedPlaylists : call.arg.data = SessionRecord(p)
           /\ \A p \in SavedPlaylists :
                  call.arg.data = SessionRecord(p) => Restores(call.ret, p)

\* a session of three tracks, one of them in a subdirectory, saved under a
\* capacity other than the default is read back
C19_Witness ==
    /\ call.op = "load_session"
    /\ call.arg.exists
    /\ call.arg.data = SessionRecord([capacity_mb |-> 1, tracks |-> <<PT5, PT1, PT3>>])
    /\ call.ret.raised = "none"
    /\ ~call.ret.none
    /\ Len(call.ret.value.tracks) = 3

(***************************************************************************)
(* The main program (main.py): the startup, then the menu loop             *)
(***************************************************************************)
\* the device when the program starts: a song and a note
MainDevice == [files |-> {DF1, DF4}, dirs |-> DirsOf({DF1, DF4})]

\* a playlist of an earlier run, saved under another configured capacity
EarlierPlaylist == [capacity_mb |-> 2, tracks |-> <<DT4, DT1>>]

\* the files main finds when it starts: no cache or the cache of an earlier
\* scan; no session, one that is not JSON, or the session of an earlier run
MainCacheFiles == { NoFile, FileOf("valid", CacheRecord(<<DT1, DT4>>)) }
MainSessionFiles ==
    { NoFile, FileOf("not_json", NotJson), FileOf("valid", SessionRecord(EarlierPlaylist)) }

InitMain ==
    /\ cache_file \in MainCacheFiles
    /\ session_file \in MainSessionFiles
    /\ library = <<>>
    /\ loaded = NotCalled
    /\ startup = [pc |-> "library", calls |-> <<>>, rescanned |-> FALSE,
                  cache_kind |-> cache_file.kind, session_kind |-> session_file.kind,
                  write_failed |-> FALSE]
    /\ \E c \in Capacities : config = [capacity_mb |-> c]
    /\ playlist = [capacity_mb |-> config.capacity_mb, tracks |-> <<>>]
    /\ call = NoCall
    /\ target \in Targets
    /\ mounted \in BOOLEAN
    /\ device = MainDevice
    /\ transfer_tracks = <<>>
    /\ transfer_pc = "idle"
    /\ clearing = NoClearing
    /\ copying = NoCopying
    /\ result = None
    /\ phases = <<>>
    /\ IndexIdle
    /\ ParseIdle
    /\ ScanIdle

\* the session file after save_session(pl), with the value returned: the
\* record is written, or the file cannot be opened, or the writing fails
\* part way
save_session(pl) ==
    { [file |-> FileOf("valid", SessionRecord(pl)), ok |-> TRUE],
      [file |-> session_file, ok |-> FALSE],
      [file |-> FileOf("not_json", NotJson), ok |-> FALSE] }

\* the session file after clear_session(), with the value returned: nothing
\* to delete, or unlink succeeds, or unlink raises OSError
clear_session ==
    IF ~session_file.exists THEN { [file |-> session_file, ok |-> TRUE] }
    ELSE { [file |-> NoFile, ok |-> TRUE], [file |-> session_file, ok |-> FALSE] }

\* the session file is not touched
Untouched == [file |-> session_file, ok |-> TRUE]

\* a handler of the menu loop returning to the menu: the playlist and the
\* session file it leaves; call records the handler
Menu(op, pl, out) ==
    /\ call' = [op |-> op, arg |-> <<>>, ret |-> <<>>, before |-> <<>>]
    /\ playlist' = pl
    /\ session_file' = out.file
    /\ startup' = [startup EXCEPT !.write_failed = @ \/ ~out.ok]
    /\ UNCHANGED <<cache_file, library, loaded, config>>
    /\ UNCHANGED <<indexVars, parseVars, transferVars, scanVars>>

\* [s[i] for i in indices], for the 0-based indices of the set I in
\* ascending order, from position k on
RECURSIVE Picked(_, _, _)
Picked(s, I, k) ==
    IF k > Len(s) THEN <<>>
    ELSE (IF k - 1 \in I THEN <<s[k]>> ELSE <<>>) \o Picked(s, I, k + 1)

\* what parse_selection can return for a list of n items and is truthy: a
\* non-empty set of indices below n
Choices(n) == SUBSET (0..(n - 1)) \ {{}}

\* the indices of the set I as parse_selection returns them, sorted
Indices(I, n) == Picked([i \in 1..n |-> i - 1], I, 1)

\* search_and_add never saving the session
SearchAndAddUnsaved ==
    /\ startup.pc = "menu"
    /\ \E I \in Choices(Len(library)) :
           Menu("search_and_add", add_many(playlist, Picked(library, I, 1)).pl, Untouched)

\* search_and_add: results is a part of the library in the library's order,
\* selected the results at the indices chosen; the tracks are added and the
\* session is saved when a track was added
SearchAndAdd ==
    /\ startup.pc = "menu"
    /\ \E I \in Choices(Len(library)) :
           LET selected == Picked(library, I, 1)
               res == add_many(playlist, selected)
               added == res.ret[1]
           IN IF added > 0
              THEN \E out \in save_session(res.pl) :
                       Menu("search_and_add", res.pl, out)
              ELSE Menu("search_and_add", res.pl, Untouched)

\* view_playlist, "Remove tracks": the tracks at the indices parsed are
\* removed, then the session is saved, or deleted when no track is left
ViewPlaylistRemove ==
    /\ startup.pc = "menu"
    /\ Len(playlist.tracks) > 0
    /\ \E I \in Choices(Len(playlist.tracks)) :
           LET indices == Indices(I, Len(playlist.tracks))
               res == remove_many(playlist, indices)
           IN \E out \in (IF Len(res.pl.tracks) > 0 THEN save_session(res.pl)
                          ELSE clear_session) :
                  Menu("remove_many", res.pl, out)

\* view_playlist, "Clear all" answered "y"
ViewPlaylistClear ==
    /\ startup.pc = "menu"
    /\ Len(playlist.tracks) > 0
    /\ LET res == clear(playlist)
       IN \E out \in clear_session : Menu("clear", res.pl, out)

\* "Rescan Library": scan_library() from the menu; build_index raises, or
\* returns the tracks found, which are cached when there are any
RescanLibrary ==
    /\ startup.pc = "menu"
    /\ \/ /\ startup' = [startup EXCEPT !.pc = "crashed"]
          /\ call' = [op |-> "scan_library", arg |-> <<>>, ret |-> "raised",
                      before |-> <<>>]
          /\ UNCHANGED <<library, cache_file>>
       \/ \E found \in ScanOutcomes :
              /\ library' = found
              /\ cache_file' = IF Len(found) > 0 THEN FileOf("valid", CacheRecord(found))
                               ELSE cache_file
              /\ call' = [op |-> "scan_library", arg |-> <<>>, ret |-> Len(found) > 0,
                          before |-> <<>>]
              /\ UNCHANGED startup
    /\ UNCHANGED <<playlist, session_file, loaded, config>>
    /\ UNCHANGED <<indexVars, parseVars, transferVars, scanVars>>

\* what the user types at "Proceed? (y/n)"
Answers == { <<"y">>, <<" ", "Y">>, <<"n">>, <<"y", "e", "s">> }

\* any answer but "n" taken for a confirmation
ConfirmedUnlessNo(answer) == lower(strip(answer)) # <<"n">>

\* confirm = input.strip().lower(); confirm == "y"
Confirmed(answer) == lower(strip(answer)) = <<"y">>

\* transfer_playlist returning before perform_full_transfer is called
Declined(answer, why) ==
    /\ call' = [op |-> "transfer_playlist", arg |-> answer, ret |-> why,
                before |-> <<>>]
    /\ UNCHANGED <<playlist, transferVars, storeVars>>

\* transfer_playlist up to the call of perform_full_transfer: the playlist
\* is empty, the device is not mounted, the playlist is over capacity, or
\* the user is asked and declines, or confirms and the transfer starts
TransferPlaylist ==
    /\ startup.pc = "menu"
    /\ IF Len(playlist.tracks) = 0 THEN Declined(<<>>, "empty")
       ELSE IF ~is_shokz_mounted(mounted) THEN Declined(<<>>, "not_mounted")
       ELSE IF is_over_capacity(playlist) THEN Declined(<<>>, "over_capacity")
       ELSE \E answer \in Answers :
                IF ~Confirmed(answer) THEN Declined(answer, "cancelled")
                ELSE /\ call' = [op |-> "transfer_playlist", arg |-> answer,
                                 ret |-> "started", before |-> <<>>]
                     /\ transfer_tracks' = playlist.tracks
                     /\ transfer_pc' = "start"
                     /\ clearing' = NoClearing
                     /\ copying' = NoCopying
                     /\ result' = None
                     /\ phases' = <<>>
                     /\ startup' = [startup EXCEPT !.pc = "transfer"]
                     /\ UNCHANGED <<playlist, target, mounted, device, cache_file,
                                    session_file, library, loaded, config>>
    /\ UNCHANGED <<indexVars, parseVars, scanVars>>

\* the end of a transfer, whatever it returned
TransferEnds(pl, out) ==
    /\ call' = [op |-> "transfer_finished", arg |-> <<>>, ret |-> result.success,
                before |-> <<>>]
    /\ playlist' = pl
    /\ session_file' = out.file
    /\ startup' = [startup EXCEPT !.pc = "menu", !.write_failed = @ \/ ~out.ok]
    /\ transfer_tracks' = <<>>
    /\ transfer_pc' = "idle"
    /\ clearing' = NoClearing
    /\ copying' = NoCopying
    /\ result' = None
    /\ phases' = <<>>
    /\ UNCHANGED <<target, mounted, device, cache_file, library, loaded, config>>
    /\ UNCHANGED <<indexVars, parseVars, scanVars>>

\* transfer_playlist clearing the session and the playlist whatever
\* perform_full_transfer returned
TransferFinishedAlwaysClearing ==
    /\ startup.pc = "transfer"
    /\ transfer_pc = "done"
    /\ \E out \in clear_session : TransferEnds(clear(playlist).pl, out)

\* transfer_playlist after perform_full_transfer returned: on success the
\* session is cleared, then the playlist; the transfer's locals are gone
TransferFinished ==
    /\ startup.pc = "transfer"
    /\ transfer_pc = "done"
    /\ IF result.success
       THEN \E out \in clear_session : TransferEnds(clear(playlist).pl, out)
       ELSE TransferEnds(playlist, Untouched)

\* the user plugs the device in, or unplugs it, while the menu is shown
MenuPlug ==
    /\ startup.pc = "menu"
    /\ mounted' = ~mounted
    /\ UNCHANGED <<target, device, transfer_tracks, transfer_pc, clearing, copying,
                   result, phases, OtherThanTransfer>>

\* main: the startup, then the menu loop until "Exit"; "View Shokz" and
\* "Archive Shokz" change neither the playlist, the two files nor the device
NextMain ==
    \/ StartupLibraryChoice
    \/ StartupPlaylistSession
    \/ SearchAndAdd
    \/ ViewPlaylistRemove
    \/ ViewPlaylistClear
    \/ RescanLibrary
    \/ TransferPlaylist
    \/ CheckMount
    \/ ClearCheckMount
    \/ ClearList
    \/ ClearDelete
    \/ ClearFinish
    \/ TransferCheckMount
    \/ CopyTrack
    \/ TransferReturn
    \/ Unplug
    \/ Replug
    \/ TransferFinished
    \/ MenuPlug

SpecMain == InitMain /\ [][NextMain]_vars

AtMenu == startup.pc = "menu"

\* the step in which transfer_playlist returns after perform_full_transfer did
TransferReturns == startup.pc = "transfer" /\ startup'.pc = "menu"

\* a step in which transfer_playlist returns without calling perform_full_transfer
TransferDeclined ==
    /\ AtMenu
    /\ call'.op = "transfer_playlist"
    /\ call'.ret \in {"empty", "not_mounted", "over_capacity", "cancelled"}

Kept == playlist' = playlist /\ session_file' = session_file

\* C23 as stated: transfer_playlist clears the playlist and deletes the
\* session file if and only if perform_full_transfer returned success; after
\* a failed or cancelled transfer both are as they were.
C23_ClearedIffSuccess ==
    [][ /\ TransferReturns =>
               IF result.success THEN playlist'.tracks = <<>> /\ ~session_file'.exists
               ELSE Kept /\ playlist.tracks # <<>>
        /\ TransferDeclined => Kept ]_vars

\* C23 amended: transfer_playlist clears the playlist if and only if
\* perform_full_transfer returned success, and then calls clear_session,
\* which deletes the session file unless the deletion fails, a failure that
\* is ignored and leaves the file as it was; after a failed or cancelled
\* transfer the playlist and the session file are as they were.
C23_ClearedIffSuccessUnlessUnlinkFails ==
    [][ /\ TransferReturns =>
               IF result.success
               THEN /\ playlist'.tracks = <<>>
                    /\ playlist'.capacity_mb = playlist.capacity_mb
                    /\ \/ ~session_file'.exists
                       \/ session_file' = session_file /\ startup'.write_failed
               ELSE Kept /\ playlist.tracks # <<>>
        /\ TransferDeclined => Kept ]_vars

\* a resumed playlist was transferred and the session file deleted
C23_Witness ==
    /\ call.op = "transfer_finished"
    /\ call.ret
    /\ playlist.tracks = <<>>
    /\ ~session_file.exists
    /\ \E i \in DOMAIN startup.calls : startup.calls[i].fn = "load_session"

\* the session file is absent when the playlist is empty and otherwise
\* holds the playlist's tracks in order
Consistent(pl, file) ==
    IF pl.tracks = <<>> THEN ~file.exists
    ELSE LET read == load_session(file)
         IN read.raised = "none" /\ ~read.none /\ read.value.tracks = pl.tracks

LeftAsFound ==
    /\ session_file.exists
    /\ session_file' = session_file
    /\ playlist'.tracks = <<>>

ScanReturns ==
    \/ startup.pc = "library" /\ startup'.rescanned /\ startup'.pc # "crashed"
    \/ AtMenu /\ startup'.pc = "menu" /\ call'.op = "scan_library"

\* load_cache() returns exactly these tracks
Caches(file, tracks) ==
    LET read == load_cache(file)
    IN read.raised = "none" /\ ~read.none /\ read.value = tracks

\* C25 as stated: after every scan by scan_library, at startup or from the
\* menu, the cache file holds exactly the tracks that the scan produced and
\* that are now the library, also when the scan found none.
C25_CacheHoldsLastScan ==
    [][ScanReturns => Caches(cache_file', library')]_vars

\* C25 amended: after every scan by scan_library that found at least one
\* track, at startup or from the menu, the cache file holds exactly the
\* tracks that the scan produced and that are now the library; after a scan
\* that found no track the library is empty and the cache file is as it was
\* before the scan, absent or holding the tracks of an earlier scan.
C25_CacheHoldsLastNonEmptyScan ==
    [][ScanReturns => IF library' # <<>> THEN Caches(cache_file', library')
                      ELSE cache_file' = cache_file]_vars

\* a rescan from the menu found nothing and the cache holds an earlier scan
C25_Witness ==
    /\ AtMenu
    /\ call.op = "scan_library"
    /\ library = <<>>
    /\ Caches(cache_file, <<DT1, DT4>>)

\* the step in which perform_full_transfer enters its clear phase
ClearPhaseStarts == "CLEARING" \notin Range(phases) /\ "CLEARING" \in Range(phases')

\* transfer_playlist is running, the playlist is not empty, the device is
\* mounted, the sizes of the playlist's tracks add up to no more than the
\* playlist's capacity, and the answer to "Continue? (y/n)" was y, its case
\* and the blanks around it disregarded
MayClear ==
    /\ startup.pc = "transfer"
    /\ playlist.tracks # <<>>
    /\ mounted
    /\ ~MoreThanMB(SumOfSizes(playlist.tracks), playlist.capacity_mb)
    /\ call.op = "transfer_playlist"
    /\ call.arg \in { <<"y">>, <<" ", "Y">> }

\* C29: in the main program the clear phase of a transfer starts only when,
\* at that moment, the playlist is not empty, the target is mounted, the
\* playlist is not over its capacity and the user confirmed with "y"; in
\* every other case no file of the device is deleted or written.
C29_ClearOnlyWhenConfirmed ==
    [][ /\ ClearPhaseStarts => MayClear
        /\ device' # device => "CLEARING" \in Range(phases) /\ MayClear ]_vars

\* a transfer confirmed with " Y" has deleted the song that was on the device
C29_Witness ==
    /\ startup.pc = "transfer"
    /\ call.op = "transfer_playlist"
    /\ call.arg = <<" ", "Y">>
    /\ "CLEARING" \in Range(phases)
    /\ DF1 \notin device.files

\* C30: at every point of the main loop the playlist's capacity_mb is the
\* configured capacity, also after a saved session was resumed, so that no
\* transfer passes the capacity test of transfer_playlist with tracks whose
\* sizes add up to more than the configured capacity.
C30_CapacityIsConfigured ==
    /\ startup.pc \in {"menu", "transfer"} => playlist.capacity_mb = config.capacity_mb
    /\ startup.pc = "transfer" =>
           ~MoreThanMB(SumOfSizes(playlist.tracks), config.capacity_mb)

====
